---- MODULE Spec2Model ----
(***************************************************************************)
(* Model of the premiere-auto-camera pipeline: AudioAnalyzer's dominant    *)
(* camera rule, CutGenerator (synthesis scan, merge pass, validator) and   *)
(* TimelineEditor.applyEdits.                                              *)
(*                                                                         *)
(* Times (timestamps, durations, minCutDuration) are JavaScript numbers in *)
(* the source; here they are integers counting ticks of a fixed length, so *)
(* that subtraction and comparison are exact.  Audio levels are integers   *)
(* counting steps of 0.05, frequency thresholds integers counting tenths.  *)
(***************************************************************************)
EXTENDS Integers, Sequences, FiniteSets, TLC

\* ------------------------------------------------------------------ bounds
MaxTime == 4
MaxMinCut == 2
MaxCuts == 4
MaxDur == 1
MaxAltCuts == 5
MaxArbTime == 1
MaxLevel == 6
MaxEditCuts == 3
MaxValCuts == 2
MaxValTime == 1
MaxAnaDuration == 4
MaxSampleRate == 2
MaxSamples == 2
MaxStatCuts == 3
MaxSetupCalls == 4
MaxAnalyzeCalls == 1
MaxUiCuts == 1

\* --------------------------------------------------------------- constants
Cameras == {1, 2, 3}
Frequencies == {"low", "medium", "high", "unknown"}
null == [null |-> TRUE]

VARIABLES
  pc,              \* position of the running call
  analysisResult,  \* generateCuts argument: [timeline, duration]
  options,         \* generateCuts argument: [minCutDuration, cutFrequency]
  threshold,       \* generateCuts local
  timestamps,      \* generateCuts local: sorted keys of the timeline
  idx,             \* generateCuts: number of timestamps already scanned
  currentCut,      \* generateCuts local
  cuts,            \* generateCuts local / applyFrequencyThreshold argument
  result,          \* value returned by generateCuts / applyFrequencyThreshold
  validation,      \* validateCuts(result) as run by the caller
  optMinCut,       \* applyFrequencyThreshold argument minCutDuration
  optI,            \* applyFrequencyThreshold local i (0-based)
  optimized,       \* applyFrequencyThreshold local
  levels,          \* determineActiveCamera argument
  activeCam,       \* value returned by determineActiveCamera
  sequence,        \* applyEdits argument: [name, videoTracks]
  editCuts,        \* applyEdits argument cuts
  cameras,         \* applyEdits argument, with the state of each camera's track
  progressCallback, \* TimelineEditor field: TRUE when a callback is registered
  appDefined,      \* whether the host global app.project exists
  createCalls,     \* number of createNewSequence calls made
  newSequence,     \* applyEdits local
  cameraClips,     \* applyEdits local
  editK,           \* applyEdits: number of cuts the for-loop has left behind
  cutsApplied,     \* applyEdits local
  inserts,         \* insertClip requests received by the destination track
  progress,        \* reports received by the progress callback
  editResult,      \* value applyEdits resolved with
  editThrown,      \* TRUE when applyEdits rejected
  valInput,        \* validateCuts argument: [isArray, items]
  valOutcome,      \* how validateCuts ended: [threw, value]
  valSecond,       \* how a second validateCuts call on the same list ended
  anaSequence,     \* analyzeSequence argument: [end, audioTracks]
  anaOptions,      \* analyzeSequence argument options
  anaCallback,     \* AudioAnalyzer field: TRUE when a callback is registered
  anaSampleRate,   \* analyzeSequence local sampleRate
  anaDuration,     \* analyzeSequence local duration
  anaTotalSamples, \* analyzeSequence local totalSamples
  anaTimeline,     \* analyzeSequence local timeline
  anaI,            \* analyzeSequence local i
  lookups,         \* the three getAudioLevelAtTime calls of Promise.all
  lookupFailures,  \* <<timestamp, camera>> of the lookups in which the host failed
  anaProgress,     \* reports received by the progress callback
  anaResult,       \* value analyzeSequence resolved with
  anaThrown,       \* the error analyzeSequence rejected with, or null
  stateCameras,    \* state.cameras: TRUE for a camera that is assigned
  isAnalyzing,     \* state.isAnalyzing
  currentStep,     \* state.currentStep
  stateAnalysisResult, \* state.analysisResult: null or the result of a run
  stateCuts,       \* state.cuts: null or the cut list of a run
  analyzeBtnDisabled,  \* analyzeBtn.disabled
  statusDiv,       \* status display: [type, message]
  progressDiv,     \* progress display: its text, <<>> when hidden
  analyzeRuns,     \* the invocations of analyze(), each with its position
  setupCalls,      \* setupCamera calls in flight, per camera and await
  setupStarted     \* number of setupCamera calls made

genVars == <<analysisResult, options, threshold, timestamps, idx, currentCut,
             validation>>
listVars == <<cuts, result>>
optVars == <<optMinCut, optI, optimized>>
camVars == <<levels, activeCam>>
editInputs == <<sequence, editCuts, cameras, progressCallback, appDefined>>
editVars == <<editInputs, createCalls, newSequence, cameraClips, editK, cutsApplied,
              inserts, progress, editResult, editThrown>>

valVars == <<valInput, valOutcome, valSecond>>
anaInputs == <<anaSequence, anaOptions, anaCallback>>
anaVars == <<anaInputs, anaSampleRate, anaDuration, anaTotalSamples, anaTimeline,
             anaI, lookups, lookupFailures, anaProgress, anaResult, anaThrown>>

uiVars == <<stateCameras, isAnalyzing, currentStep, stateAnalysisResult, stateCuts,
            analyzeBtnDisabled, statusDiv, progressDiv, analyzeRuns, setupCalls,
            setupStarted>>

vars == <<pc, genVars, listVars, optVars, camVars, editVars, valVars, anaVars, uiVars>>

\* ------------------------------------------------------------ CutGenerator
Cut(s, e, c) == [startTime |-> s, endTime |-> e, camera |-> c]

\* thresholds table of frequencyToThreshold, in tenths
thresholds(frequency) ==
  CASE frequency = "high" -> 6
    [] frequency = "medium" -> 7
    [] frequency = "low" -> 8
    [] OTHER -> 0

frequencyToThreshold(frequency) ==
  IF thresholds(frequency) # 0 THEN thresholds(frequency) ELSE thresholds("medium")

Min(S) == CHOOSE x \in S : \A y \in S : x <= y
Max(S) == CHOOSE x \in S : \A y \in S : x >= y

RECURSIVE SortAscending(_)
SortAscending(S) ==
  IF S = {} THEN <<>> ELSE <<Min(S)>> \o SortAscending(S \ {Min(S)})

\* Object.keys(timeline).map(Number).sort((a, b) => a - b)
SortedTimestamps(timeline) == SortAscending(DOMAIN timeline)

LongEnough_offByOne(currentDuration, minCutDuration) ==
  currentDuration + 1 >= minCutDuration

\* every switch commits the cut in progress
LongEnough_always(currentDuration, minCutDuration) == TRUE

LongEnough_strict(currentDuration, minCutDuration) == currentDuration > minCutDuration

\* the commit test of the scan
LongEnough(currentDuration, minCutDuration) == currentDuration >= minCutDuration

\* a cut that is long enough is committed although the camera stays
LoopBody_splitSame(cc, cs, timestamp, activeCamera, minCutDuration) ==
  IF cc = null
  THEN [currentCut |-> Cut(timestamp, timestamp, activeCamera), cuts |-> cs]
  ELSE IF timestamp - cc.startTime >= minCutDuration
       THEN [currentCut |-> Cut(timestamp, timestamp, activeCamera),
             cuts |-> Append(cs, [cc EXCEPT !.endTime = timestamp])]
       ELSE [currentCut |-> [cc EXCEPT !.endTime = timestamp], cuts |-> cs]

\* the new cut starts at the end of the cut in progress, the sample before
LoopBody_lateStart(cc, cs, timestamp, activeCamera, minCutDuration) ==
  IF cc = null
  THEN [currentCut |-> Cut(timestamp, timestamp, activeCamera), cuts |-> cs]
  ELSE IF activeCamera # cc.camera
       THEN LET currentDuration == timestamp - cc.startTime IN
            IF LongEnough(currentDuration, minCutDuration)
            THEN [currentCut |-> Cut(cc.endTime, timestamp, activeCamera),
                  cuts |-> Append(cs, cc)]
            ELSE [currentCut |-> [cc EXCEPT !.endTime = timestamp], cuts |-> cs]
       ELSE [currentCut |-> [cc EXCEPT !.endTime = timestamp], cuts |-> cs]

LoopBody_switchCamera(cc, cs, timestamp, activeCamera, minCutDuration) ==
  IF cc = null
  THEN [currentCut |-> Cut(timestamp, timestamp, activeCamera), cuts |-> cs]
  ELSE IF activeCamera # cc.camera
       THEN LET currentDuration == timestamp - cc.startTime IN
            IF currentDuration >= minCutDuration
            THEN [currentCut |-> Cut(timestamp, timestamp, activeCamera),
                  cuts |-> Append(cs, [cc EXCEPT !.endTime = timestamp])]
            ELSE [currentCut |-> [cc EXCEPT !.endTime = timestamp,
                                            !.camera = activeCamera],
                  cuts |-> cs]
       ELSE [currentCut |-> [cc EXCEPT !.endTime = timestamp], cuts |-> cs]

\* one iteration of the for-loop over timestamps
LoopBody(cc, cs, timestamp, activeCamera, minCutDuration) ==
  IF cc = null
  THEN [currentCut |-> Cut(timestamp, timestamp, activeCamera), cuts |-> cs]
  ELSE IF activeCamera # cc.camera
       THEN LET currentDuration == timestamp - cc.startTime IN
            IF LongEnough(currentDuration, minCutDuration)
            THEN [currentCut |-> Cut(timestamp, timestamp, activeCamera),
                  cuts |-> Append(cs, [cc EXCEPT !.endTime = timestamp])]
            ELSE [currentCut |-> [cc EXCEPT !.endTime = timestamp], cuts |-> cs]
       ELSE [currentCut |-> [cc EXCEPT !.endTime = timestamp], cuts |-> cs]

\* the final cut is absorbed into the last committed cut
CommitFinal_absorb(cc, cs, duration) ==
  IF cc = null THEN cs
  ELSE IF cs = <<>> THEN <<[cc EXCEPT !.endTime = duration]>>
       ELSE [cs EXCEPT ![Len(cs)].endTime = duration]

\* a cut over the whole duration is committed when no sample was scanned
CommitFinal_always(cc, cs, duration) ==
  IF cc # null THEN Append(cs, [cc EXCEPT !.endTime = duration])
  ELSE Append(cs, Cut(0, duration, 1))

CommitFinal_lastSample(cc, cs, duration) ==
  IF cc # null THEN Append(cs, cc) ELSE cs

\* "Commit final cut"
CommitFinal(cc, cs, duration) ==
  IF cc # null THEN Append(cs, [cc EXCEPT !.endTime = duration]) ELSE cs

CanMerge_anyCamera(cs, i, minCutDuration) ==
  /\ i < Len(cs) - 1
  /\ cs[i + 1].endTime - cs[i + 1].startTime < minCutDuration

\* the merge test of applyFrequencyThreshold at index i (1-based)
CanMerge(cs, i, minCutDuration) ==
  /\ i < Len(cs) - 1
  /\ LET next == cs[i + 1]
         afterNext == cs[i + 2]
         nextDuration == next.endTime - next.startTime
     IN nextDuration < minCutDuration /\ cs[i].camera = afterNext.camera

MergeBody_skipTwo(cs, i, out, minCutDuration) ==
  IF CanMerge(cs, i, minCutDuration)
  THEN [i |-> i + 2,
        optimized |-> Append(out, Cut(cs[i].startTime, cs[i + 2].endTime, cs[i].camera))]
  ELSE [i |-> i + 1, optimized |-> Append(out, cs[i])]

MergeBody_greedy(cs, i, out, minCutDuration) ==
  IF CanMerge(cs, i, minCutDuration)
  THEN IF CanMerge(cs, i + 2, minCutDuration)
       THEN [i |-> i + 5,
             optimized |->
               Append(out, Cut(cs[i].startTime, cs[i + 4].endTime, cs[i].camera))]
       ELSE [i |-> i + 3,
             optimized |->
               Append(out, Cut(cs[i].startTime, cs[i + 2].endTime, cs[i].camera))]
  ELSE [i |-> i + 1, optimized |-> Append(out, cs[i])]

\* one iteration of the while-loop of applyFrequencyThreshold; out is the
\* list optimized built so far
MergeBody(cs, i, out, minCutDuration) ==
  IF CanMerge(cs, i, minCutDuration)
  THEN [i |-> i + 3,
        optimized |-> Append(out, Cut(cs[i].startTime, cs[i + 2].endTime, cs[i].camera))]
  ELSE [i |-> i + 1, optimized |-> Append(out, cs[i])]

RECURSIVE MergeLoop(_, _, _, _)
MergeLoop(cs, i, out, minCutDuration) ==
  IF i <= Len(cs)
  THEN LET st == MergeBody(cs, i, out, minCutDuration)
       IN MergeLoop(cs, st.i, st.optimized, minCutDuration)
  ELSE out

applyFrequencyThreshold(cs, minCutDuration) ==
  IF Len(cs) = 0 THEN cs ELSE MergeLoop(cs, 1, <<>>, minCutDuration)

optimizedCuts_threshold(cs, minCutDuration, thr) ==
  applyFrequencyThreshold(cs, minCutDuration + (8 - thr))

\* "const optimizedCuts = this.applyFrequencyThreshold(cuts, minCutDuration)"
\* with the unused local threshold in scope
optimizedCuts(cs, minCutDuration, thr) == applyFrequencyThreshold(cs, minCutDuration)

RECURSIVE ScanLoop(_, _, _, _, _, _)
ScanLoop(timeline, ts, k, cc, cs, minCutDuration) ==
  IF k <= Len(ts)
  THEN LET st == LoopBody(cc, cs, ts[k], timeline[ts[k]], minCutDuration)
       IN ScanLoop(timeline, ts, k + 1, st.currentCut, st.cuts, minCutDuration)
  ELSE [currentCut |-> cc, cuts |-> cs]

\* generateCuts as a function of its arguments
generateCuts(ar, opts) ==
  LET thr == frequencyToThreshold(opts.cutFrequency)
      ts  == SortedTimestamps(ar.timeline)
      st  == ScanLoop(ar.timeline, ts, 1, null, <<>>, opts.minCutDuration)
      raw == CommitFinal(st.currentCut, st.cuts, ar.duration)
  IN optimizedCuts(raw, opts.minCutDuration, thr)

\* a cut record carries a subset of the fields startTime, endTime, camera;
\* cut.f === undefined when the record has no field f
Missing(cut, f) == f \notin DOMAIN cut

\* cut.startTime < 0, false when startTime is undefined
StartNegative(cut) == ~Missing(cut, "startTime") /\ cut.startTime < 0

EndBeforeStart_strictEnd(cut) ==
  /\ ~Missing(cut, "startTime")
  /\ ~Missing(cut, "endTime")
  /\ cut.endTime <= cut.startTime

\* cut.endTime < cut.startTime, false when either is undefined
EndBeforeStart(cut) ==
  /\ ~Missing(cut, "startTime")
  /\ ~Missing(cut, "endTime")
  /\ cut.endTime < cut.startTime

\* ![1, 2, 3].includes(cut.camera), true when camera is undefined
BadCamera(cut) == Missing(cut, "camera") \/ cut.camera \notin {1, 2, 3}

\* cut.startTime < prevCut.endTime, false when either is undefined
OverlapsPrevious(cut, prevCut) ==
  /\ ~Missing(cut, "startTime")
  /\ ~Missing(prevCut, "endTime")
  /\ cut.startTime < prevCut.endTime

\* errors.push(`Cut ${i}: ${text}`) when the condition holds
Push(condition, i, text) == IF condition THEN <<<<i, text>>>> ELSE <<>>

\* messages of validateCuts for the cut at 0-based index i
CutErrors(cs, i) ==
  LET cut == cs[i + 1] IN
  Push(Missing(cut, "startTime"), i, "missing startTime")
  \o Push(Missing(cut, "endTime"), i, "missing endTime")
  \o Push(Missing(cut, "camera"), i, "missing camera")
  \o Push(StartNegative(cut), i, "startTime cannot be negative")
  \o Push(EndBeforeStart(cut), i, "endTime must be >= startTime")
  \o Push(BadCamera(cut), i, "camera must be 1, 2, or 3")
  \o Push(i > 0 /\ OverlapsPrevious(cut, cs[i]), i, "overlaps with previous cut")

RECURSIVE ValidateLoop_failFast(_, _, _)
ValidateLoop_failFast(cs, i, errors) ==
  IF i < Len(cs) /\ errors = <<>>
  THEN ValidateLoop_failFast(cs, i + 1, errors \o CutErrors(cs, i))
  ELSE errors

RECURSIVE ValidateLoop(_, _, _)
ValidateLoop(cs, i, errors) ==
  IF i < Len(cs) THEN ValidateLoop(cs, i + 1, errors \o CutErrors(cs, i)) ELSE errors

\* validateCuts on an array of cut records: the for-loop and the return
validateCuts(cs) ==
  LET errors == ValidateLoop(cs, 0, <<>>)
  IN [valid |-> Len(errors) = 0, errors |-> errors]

\* a call of validateCuts with any value: a value that is not an array is
\* answered at once; reading cut.startTime of an element that is null or
\* undefined throws a TypeError out of the loop
validateCutsCall(input) ==
  IF ~input.isArray
  THEN [threw |-> FALSE,
        value |-> [valid |-> FALSE, errors |-> <<<<"Cuts must be an array">>>>]]
  ELSE IF \E k \in 1..Len(input.items) : input.items[k] = null
       THEN [threw |-> TRUE, value |-> null]
       ELSE [threw |-> FALSE, value |-> validateCuts(input.items)]

\* ---------------------------------------------- values of variables not in use
GenIdle ==
  /\ analysisResult = null
  /\ options = null
  /\ threshold = 0
  /\ timestamps = <<>>
  /\ idx = 0
  /\ currentCut = null
  /\ validation = null

OptIdle ==
  /\ optMinCut = 0
  /\ optI = 0
  /\ optimized = <<>>

ListIdle ==
  /\ cuts = <<>>
  /\ result = <<>>

CamIdle ==
  /\ levels = <<>>
  /\ activeCam = 0

ValIdle ==
  /\ valInput = null
  /\ valOutcome = null
  /\ valSecond = null

AnaIdle ==
  /\ anaSequence = null
  /\ anaOptions = null
  /\ anaCallback = FALSE
  /\ anaSampleRate = 0
  /\ anaDuration = 0
  /\ anaTotalSamples = 0
  /\ anaTimeline = <<>>
  /\ anaI = 0
  /\ lookups = <<>>
  /\ lookupFailures = {}
  /\ anaProgress = <<>>
  /\ anaResult = null
  /\ anaThrown = null

UiIdle ==
  /\ stateCameras = null
  /\ isAnalyzing = FALSE
  /\ currentStep = "setup"
  /\ stateAnalysisResult = null
  /\ stateCuts = null
  /\ analyzeBtnDisabled = TRUE
  /\ statusDiv = null
  /\ progressDiv = <<>>
  /\ analyzeRuns = <<>>
  /\ setupCalls = null
  /\ setupStarted = 0

EditIdle ==
  /\ sequence = null
  /\ editCuts = <<>>
  /\ cameras = null
  /\ progressCallback = FALSE
  /\ appDefined = FALSE
  /\ createCalls = 0
  /\ newSequence = null
  /\ cameraClips = null
  /\ editK = 0
  /\ cutsApplied = 0
  /\ inserts = <<>>
  /\ progress = <<>>
  /\ editResult = null
  /\ editThrown = FALSE

\* ------------------------------------------------- generateCuts, step by step
\* createMockAnalysisResult(timeline, duration) of the generateCuts() tests
TestAnalysisResults ==
  { [timeline |-> (0 :> 1) @@ (1 :> 1) @@ (2 :> 1), duration |-> 3],
    [timeline |-> (0 :> 1) @@ (1 :> 2) @@ (2 :> 1) @@ (3 :> 1), duration |-> 4],
    [timeline |-> (0 :> 1) @@ (1 :> 1) @@ (2 :> 2) @@ (3 :> 2) @@ (4 :> 3) @@ (5 :> 3),
     duration |-> 6],
    [timeline |-> (0 :> 1) @@ (1 :> 1) @@ (2 :> 2) @@ (3 :> 2) @@ (4 :> 1) @@ (5 :> 1),
     duration |-> 6],
    [timeline |-> (0 :> 1) @@ (1 :> 1) @@ (2 :> 2) @@ (3 :> 1) @@ (4 :> 1) @@ (5 :> 2)
                  @@ (6 :> 1),
     duration |-> 7] }

GenInit ==
  /\ pc = "gen_entry"
  /\ \/ \E T \in SUBSET (0..MaxTime) : \E tl \in [T -> Cameras] :
          \E d \in 0..(MaxTime + 1) :
            analysisResult = [timeline |-> tl, duration |-> d]
     \/ analysisResult \in TestAnalysisResults
  /\ \E m \in 0..MaxMinCut, f \in Frequencies :
       options = [minCutDuration |-> m, cutFrequency |-> f]
  /\ threshold = 0
  /\ timestamps = <<>>
  /\ idx = 0
  /\ currentCut = null
  /\ cuts = <<>>
  /\ result = <<>>
  /\ validation = null
  /\ OptIdle /\ CamIdle /\ EditIdle /\ ValIdle /\ AnaIdle /\ UiIdle

\* lines 56-65: threshold and sorted timestamps
GenStart ==
  /\ pc = "gen_entry"
  /\ threshold' = frequencyToThreshold(options.cutFrequency)
  /\ timestamps' = SortedTimestamps(analysisResult.timeline)
  /\ pc' = "gen_scan"
  /\ UNCHANGED <<analysisResult, options, idx, currentCut, cuts, result, validation>>
  /\ UNCHANGED <<optVars, camVars, editVars, valVars, anaVars, uiVars>>

\* lines 69-103: one timestamp of the scan
GenScan ==
  /\ pc = "gen_scan"
  /\ idx < Len(timestamps)
  /\ LET timestamp == timestamps[idx + 1]
         activeCamera == analysisResult.timeline[timestamp]
         st == LoopBody(currentCut, cuts, timestamp, activeCamera,
                        options.minCutDuration)
     IN /\ currentCut' = st.currentCut
        /\ cuts' = st.cuts
  /\ idx' = idx + 1
  /\ UNCHANGED <<pc, analysisResult, options, threshold, timestamps, result, validation>>
  /\ UNCHANGED <<optVars, camVars, editVars, valVars, anaVars, uiVars>>

\* lines 105-118: commit the final cut, run the merge pass, return
GenFinish ==
  /\ pc = "gen_scan"
  /\ idx = Len(timestamps)
  /\ cuts' = CommitFinal(currentCut, cuts, analysisResult.duration)
  /\ result' = optimizedCuts(cuts', options.minCutDuration, threshold)
  /\ pc' = "gen_done"
  /\ UNCHANGED <<analysisResult, options, threshold, timestamps, idx, currentCut,
                 validation>>
  /\ UNCHANGED <<optVars, camVars, editVars, valVars, anaVars, uiVars>>

\* the caller validates the returned list
GenValidate ==
  /\ pc = "gen_done"
  /\ validation' = validateCuts(result)
  /\ pc' = "gen_validated"
  /\ UNCHANGED <<analysisResult, options, threshold, timestamps, idx, currentCut,
                 cuts, result>>
  /\ UNCHANGED <<optVars, camVars, editVars, valVars, anaVars, uiVars>>

GenNext == GenStart \/ GenScan \/ GenFinish \/ GenValidate

SpecGen == GenInit /\ [][GenNext]_vars

\* --------------------------------------- applyFrequencyThreshold, step by step
\* cut lists handed to applyFrequencyThreshold: gapless lists of up to MaxCuts
\* cuts laid out from 0, gapless lists of up to MaxAltCuts cuts alternating
\* between two cameras, and arbitrary lists that fill at most one merge window
RECURSIVE Layout(_, _)
Layout(shape, start) ==
  IF shape = <<>> THEN <<>>
  ELSE <<Cut(start, start + shape[1][1], shape[1][2])>>
       \o Layout(Tail(shape), start + shape[1][1])

\* the merge test reads cuts[i], cuts[i + 1], cuts[i + 2]
MergeWindow == 3

ArbitraryCuts ==
  {Cut(s, e, c) : s \in 0..MaxArbTime, e \in 0..MaxArbTime, c \in Cameras}

OptInit ==
  /\ pc = "opt_entry"
  /\ \/ \E n \in 0..MaxCuts : \E shape \in [1..n -> (0..MaxDur) \X Cameras] :
          cuts = Layout(shape, 0)
     \/ \E n \in 0..MaxAltCuts : \E a \in Cameras : \E b \in Cameras \ {a} :
          \E d \in [1..n -> 0..(MaxDur + 1)] :
            cuts = Layout([k \in 1..n |-> <<d[k], IF k % 2 = 1 THEN a ELSE b>>], 0)
     \/ \E n \in 0..MergeWindow : cuts \in [1..n -> ArbitraryCuts]
  /\ optMinCut \in 0..MaxMinCut
  /\ optI = 0
  /\ optimized = <<>>
  /\ result = <<>>
  /\ GenIdle /\ CamIdle /\ EditIdle /\ ValIdle /\ AnaIdle /\ UiIdle

\* lines 154-161: an empty list is returned as it is
OptStart ==
  /\ pc = "opt_entry"
  /\ IF Len(cuts) = 0
     THEN pc' = "opt_done" /\ result' = cuts
     ELSE pc' = "opt_loop" /\ result' = result
  /\ optI' = 0
  /\ optimized' = <<>>
  /\ UNCHANGED <<cuts, optMinCut, genVars, camVars, editVars, valVars, anaVars, uiVars>>

\* the merged cut is written into the first of the three input cuts
OptStep_inPlace ==
  /\ pc = "opt_loop"
  /\ optI < Len(cuts)
  /\ LET st == MergeBody(cuts, optI + 1, optimized, optMinCut)
     IN /\ optI' = st.i - 1
        /\ optimized' = st.optimized
        /\ cuts' = IF CanMerge(cuts, optI + 1, optMinCut)
                   THEN [cuts EXCEPT ![optI + 1] = st.optimized[Len(st.optimized)]]
                   ELSE cuts
  /\ UNCHANGED <<pc, result, optMinCut, genVars, camVars, editVars, valVars, anaVars, uiVars>>

\* lines 163-193: one iteration of the while-loop
OptStep ==
  /\ pc = "opt_loop"
  /\ optI < Len(cuts)
  /\ LET st == MergeBody(cuts, optI + 1, optimized, optMinCut)
     IN /\ optI' = st.i - 1
        /\ optimized' = st.optimized
  /\ UNCHANGED <<pc, cuts, result, optMinCut, genVars, camVars, editVars, valVars, anaVars, uiVars>>

\* line 195
OptReturn ==
  /\ pc = "opt_loop"
  /\ optI >= Len(cuts)
  /\ result' = optimized
  /\ pc' = "opt_done"
  /\ UNCHANGED <<cuts, optMinCut, optI, optimized, genVars, camVars, editVars, valVars, anaVars, uiVars>>

OptNext == OptStart \/ OptStep \/ OptReturn

SpecOpt == OptInit /\ [][OptNext]_vars

\* the two stages of CutGenerator side by side: a call of generateCuts or a
\* call of applyFrequencyThreshold on a list of its own
StagesInit == GenInit \/ OptInit

StagesNext == GenNext \/ OptNext

SpecStages == StagesInit /\ [][StagesNext]_vars

\* --------------------------------------------------------------- getStatistics
\* totalDuration / cuts.length, kept as an exact quotient
Quotient(a, b) == [num |-> a, den |-> b]

\* { ...cut, duration: cut.endTime - cut.startTime }
WithDuration(cut) ==
  [startTime |-> cut.startTime, endTime |-> cut.endTime, camera |-> cut.camera,
   duration |-> cut.endTime - cut.startTime]

StatsBody_lastShortest(st, cut) ==
  LET d == cut.endTime - cut.startTime
  IN [totalDuration |-> st.totalDuration + d,
      cameraUsage |-> [st.cameraUsage EXCEPT ![cut.camera] = @ + d],
      shortestCut |->
        IF d <= st.shortestCut.endTime - st.shortestCut.startTime
        THEN cut ELSE st.shortestCut,
      longestCut |->
        IF d > st.longestCut.endTime - st.longestCut.startTime
        THEN cut ELSE st.longestCut]

\* one iteration of "for (const cut of cuts)"
StatsBody(st, cut) ==
  LET d == cut.endTime - cut.startTime
  IN [totalDuration |-> st.totalDuration + d,
      cameraUsage |-> [st.cameraUsage EXCEPT ![cut.camera] = @ + d],
      shortestCut |->
        IF d < st.shortestCut.endTime - st.shortestCut.startTime
        THEN cut ELSE st.shortestCut,
      longestCut |->
        IF d > st.longestCut.endTime - st.longestCut.startTime
        THEN cut ELSE st.longestCut]

RECURSIVE StatsLoop(_, _, _)
StatsLoop(cs, k, st) ==
  IF k <= Len(cs) THEN StatsLoop(cs, k + 1, StatsBody(st, cs[k])) ELSE st

getStatistics(cs) ==
  IF Len(cs) = 0
  THEN [totalCuts |-> 0, totalDuration |-> 0, averageCutDuration |-> Quotient(0, 1),
        cameraUsage |-> [c \in Cameras |-> 0],
        shortestCut |-> null, longestCut |-> null]
  ELSE LET st == StatsLoop(cs, 1,
                           [totalDuration |-> 0, cameraUsage |-> [c \in Cameras |-> 0],
                            shortestCut |-> cs[1], longestCut |-> cs[1]])
       IN [totalCuts |-> Len(cs), totalDuration |-> st.totalDuration,
           averageCutDuration |-> Quotient(st.totalDuration, Len(cs)),
           cameraUsage |-> st.cameraUsage,
           shortestCut |-> WithDuration(st.shortestCut),
           longestCut |-> WithDuration(st.longestCut)]

\* the list of the getStatistics() test
TestStatCuts == <<Cut(0, 2, 1), Cut(2, 5, 2), Cut(5, 6, 3)>>

StatInit ==
  /\ pc = "stat_entry"
  /\ \/ \E n \in 0..MaxStatCuts : cuts \in [1..n -> ArbitraryCuts]
     \/ cuts = TestStatCuts
  /\ result = <<>>
  /\ GenIdle /\ OptIdle /\ CamIdle /\ EditIdle /\ ValIdle /\ AnaIdle /\ UiIdle

\* CutGenerator.js lines 258-306
StatCall ==
  /\ pc = "stat_entry"
  /\ result' = getStatistics(cuts)
  /\ pc' = "stat_done"
  /\ UNCHANGED <<cuts, genVars, optVars, camVars, editVars, valVars, anaVars, uiVars>>

StatNext == StatCall

SpecStat == StatInit /\ [][StatNext]_vars

\* ------------------------------------------------------------ properties, SpecGen
GenReturned == pc \in {"gen_done", "gen_validated"}

Duration(c) == c.endTime - c.startTime

LastTimestamp == Max(DOMAIN analysisResult.timeline)

\* the next sample of the scan, its camera, and the two cases of a camera change
ScanTimestamp == timestamps[idx + 1]
ScanCamera == analysisResult.timeline[ScanTimestamp]
CameraChanges ==
  /\ pc = "gen_scan" /\ idx < Len(timestamps)
  /\ currentCut # null
  /\ ScanCamera # currentCut.camera
ShortSwitch ==
  CameraChanges /\ ScanTimestamp - currentCut.startTime < options.minCutDuration
LongSwitch ==
  CameraChanges /\ ScanTimestamp - currentCut.startTime >= options.minCutDuration

\* an exact partition of [0, d): ordered, gapless, positive lengths
IsPartition(cs, d) ==
  /\ Len(cs) >= 1
  /\ cs[1].startTime = 0
  /\ cs[Len(cs)].endTime = d
  /\ \A k \in 1..Len(cs) : cs[k].endTime > cs[k].startTime
  /\ \A k \in 1..(Len(cs) - 1) :
       /\ cs[k].endTime = cs[k + 1].startTime
       /\ cs[k].startTime < cs[k + 1].startTime

C1_Precondition ==
  /\ DOMAIN analysisResult.timeline # {}
  /\ 0 \in DOMAIN analysisResult.timeline
  /\ \A t \in DOMAIN analysisResult.timeline : t < analysisResult.duration

\* C1: for a non-empty timeline whose timestamps start at 0 and are all
\* smaller than duration, the list returned by generateCuts is an exact
\* partition of [0, duration): ordered, first start 0, gapless, every cut of
\* positive length, last end equal to duration.
C1_Coverage ==
  (GenReturned /\ C1_Precondition) => IsPartition(result, analysisResult.duration)

\* a run with several cuts whose last sample lies more than one tick before
\* the duration
C1_Witness ==
  /\ pc = "gen_done" /\ C1_Precondition
  /\ Len(result) >= 3
  /\ analysisResult.duration > LastTimestamp + 1
  /\ result[Len(result)].endTime = analysisResult.duration

\* C2: every cut returned by generateCuts except the last one lasts at least
\* minCutDuration.
C2_MinDuration ==
  GenReturned =>
    \A k \in 1..(Len(result) - 1) : Duration(result[k]) >= options.minCutDuration

\* a returned list whose earlier cuts meet a minimum of 2 and whose last cut
\* is shorter than it
C2_Witness ==
  /\ pc = "gen_done"
  /\ options.minCutDuration = 2
  /\ Len(result) >= 2
  /\ Duration(result[Len(result)]) < options.minCutDuration

C3_ExampleTimeline == (0 :> 1) @@ (1 :> 2) @@ (2 :> 1) @@ (3 :> 1)

C3_Step ==
  ShortSwitch =>
    /\ cuts' = cuts
    /\ currentCut' = [currentCut EXCEPT !.endTime = ScanTimestamp]
    /\ currentCut'.camera # ScanCamera

\* the state of the scan before the k-th timestamp
ScanBefore(k) ==
  ScanLoop(analysisResult.timeline, SubSeq(timestamps, 1, k - 1), 1, null, <<>>,
           options.minCutDuration)

SuppressedAt(k) ==
  LET st == ScanBefore(k)
      t == timestamps[k]
  IN /\ st.currentCut # null
     /\ analysisResult.timeline[t] # st.currentCut.camera
     /\ t - st.currentCut.startTime < options.minCutDuration

C3_Final ==
  GenReturned =>
    /\ \A k \in 1..Len(timestamps) :
         SuppressedAt(k) =>
           \A j \in 1..Len(result) :
             /\ result[j].startTime # timestamps[k]
             /\ (result[j].startTime <= timestamps[k]
                 /\ timestamps[k] < result[j].endTime)
                => result[j].camera # analysisResult.timeline[timestamps[k]]
    /\ (/\ analysisResult = [timeline |-> C3_ExampleTimeline, duration |-> 4]
        /\ options.minCutDuration = 2)
       => result = <<Cut(0, 4, 1)>>

\* C3: short-switch suppression.  When the camera of the sample at t differs
\* from the camera of the cut in progress and t - current.startTime is below
\* minCutDuration, nothing is committed at t, the cut in progress keeps its
\* start and camera and its end becomes t; in the returned list no cut starts
\* at t and the cut covering t does not carry the sample's camera; samples
\* 1,2,1,1 at t = 0..3 with duration 4 and minCutDuration 2 give (0,4,1).
C3_ShortSwitchSuppressed == [][C3_Step]_vars /\ [] C3_Final

\* the scan has just absorbed the camera-2 sample at t = 1 of the example
C3_Witness ==
  /\ pc = "gen_scan" /\ idx = 2
  /\ analysisResult = [timeline |-> C3_ExampleTimeline, duration |-> 4]
  /\ options.minCutDuration = 2
  /\ currentCut = Cut(0, 1, 1)
  /\ cuts = <<>>

C4_ExampleTimeline ==
  (0 :> 1) @@ (1 :> 1) @@ (2 :> 2) @@ (3 :> 2) @@ (4 :> 3) @@ (5 :> 3)

C4_Step ==
  LongSwitch =>
    /\ cuts' = Append(cuts, Cut(currentCut.startTime, ScanTimestamp, currentCut.camera))
    /\ currentCut' = Cut(ScanTimestamp, ScanTimestamp, ScanCamera)

C4_Final ==
  (/\ GenReturned
   /\ analysisResult = [timeline |-> C4_ExampleTimeline, duration |-> 6]
   /\ options.minCutDuration = 2)
  => result = <<Cut(0, 2, 1), Cut(2, 4, 2), Cut(4, 6, 3)>>

\* C4: commit rule.  When the camera of the sample at t differs from the
\* camera of the cut in progress and t - current.startTime >= minCutDuration,
\* the cut in progress is appended with endTime = t and a new cut (t, t, s) is
\* opened; samples 1,1,2,2,3,3 at t = 0..5 with duration 6 and minCutDuration
\* 2 give (0,2,1),(2,4,2),(4,6,3).
C4_CommitRule == [][C4_Step]_vars /\ [] C4_Final

\* the example has returned its three cuts
C4_Witness ==
  /\ pc = "gen_done"
  /\ analysisResult = [timeline |-> C4_ExampleTimeline, duration |-> 6]
  /\ options.minCutDuration = 2
  /\ Len(result) = 3
  /\ result[2] = Cut(2, 4, 2)

C9_Precondition ==
  /\ \A t \in DOMAIN analysisResult.timeline :
       t >= 0 /\ analysisResult.timeline[t] \in {1, 2, 3}
  /\ DOMAIN analysisResult.timeline # {} => analysisResult.duration >= LastTimestamp

\* C9: for a timeline with cameras in {1,2,3}, non-negative timestamps and a
\* duration not smaller than the last timestamp, validateCuts of the returned
\* list is valid with no errors.
C9_ValidatorRoundTrip ==
  (pc = "gen_validated" /\ C9_Precondition)
  => validation = [valid |-> TRUE, errors |-> <<>>]

\* a validated list of several cuts whose last cut has zero length
C9_Witness ==
  /\ pc = "gen_validated" /\ C9_Precondition
  /\ Len(result) >= 2
  /\ Duration(result[Len(result)]) = 0
  /\ validation.valid

\* the camera changes at the last timestamp and the cut in progress is long
\* enough to be committed there
LastSampleSwitches ==
  /\ Len(timestamps) >= 2
  /\ LET st == ScanBefore(Len(timestamps))
         t == timestamps[Len(timestamps)]
     IN /\ st.currentCut # null
        /\ analysisResult.timeline[t] # st.currentCut.camera
        /\ t - st.currentCut.startTime >= options.minCutDuration

C33_CutsMaximal ==
  GenReturned =>
    \A k \in 1..(Len(result) - 1) : result[k].camera # result[k + 1].camera

\* a returned list of three cuts over a timeline in which a camera holds for
\* several samples
C33_Witness ==
  /\ pc = "gen_done"
  /\ Len(result) = 3
  /\ \E t \in DOMAIN analysisResult.timeline :
       /\ t + 1 \in DOMAIN analysisResult.timeline
       /\ analysisResult.timeline[t] = analysisResult.timeline[t + 1]

\* C35: empty input is not an error in either stage.  generateCuts on a
\* timeline without timestamps returns the empty list for every duration and
\* every option, leaving the scan without a cut, and applyFrequencyThreshold
\* on the empty list returns the empty list.
C35_EmptyInput ==
  (DOMAIN analysisResult.timeline = {} /\ pc # "gen_entry") =>
    /\ timestamps = <<>>
    /\ currentCut = null
    /\ cuts = <<>>
    /\ result = <<>>
    /\ \A m \in 0..MaxMinCut : applyFrequencyThreshold(cuts, m) = <<>>
    /\ pc = "gen_validated" => validation = [valid |-> TRUE, errors |-> <<>>]

\* an empty timeline with a positive duration has returned
C35_Witness ==
  /\ pc = "gen_done"
  /\ DOMAIN analysisResult.timeline = {}
  /\ analysisResult.duration > 0
  /\ options.minCutDuration > 0
  /\ result = <<>>

\* C37: inside generateCuts the merge pass never fires.  The returned list
\* is the raw list built by the scan, because the middle cut of any three
\* consecutive raw cuts was committed with a duration of at least
\* minCutDuration, so the merge test fails at every index.
C37_MergeNeverFires ==
  GenReturned =>
    /\ result = cuts
    /\ \A i \in 1..Len(cuts) : ~CanMerge(cuts, i, options.minCutDuration)
    /\ \A i \in 2..(Len(cuts) - 1) : Duration(cuts[i]) >= options.minCutDuration

\* a raw list A, B, A whose flanks share the camera, returned as it is
C37_Witness ==
  /\ pc = "gen_done"
  /\ Len(cuts) >= 3
  /\ cuts[1].camera = cuts[3].camera
  /\ options.minCutDuration = 2
  /\ result = cuts

\* C38: every cut returned by generateCuts starts at a sample timestamp and
\* carries the camera that is dominant at that timestamp, and every endTime
\* except the last is a sample timestamp too.
C38_CutsStartAtSamples ==
  GenReturned =>
    /\ \A k \in 1..Len(result) :
         /\ result[k].startTime \in DOMAIN analysisResult.timeline
         /\ analysisResult.timeline[result[k].startTime] = result[k].camera
    /\ \A k \in 1..(Len(result) - 1) :
         result[k].endTime \in DOMAIN analysisResult.timeline

\* a returned list whose timeline has a suppressed switch, so that not every
\* sample starts a cut
C38_Witness ==
  /\ pc = "gen_done"
  /\ Len(result) >= 2
  /\ \E k \in 1..Len(timestamps) : SuppressedAt(k)
  /\ \E t \in DOMAIN analysisResult.timeline :
       \A k \in 1..Len(result) : result[k].startTime # t

\* --------------------------------------------------------- properties, SpecStages
\* C34: no stage mutates the structure it receives.  Every step of
\* generateCuts leaves analysisResult (timeline, duration, sampleRate)
\* unchanged, and every step of applyFrequencyThreshold leaves its input list
\* unchanged (same length, same startTime, endTime and camera of every
\* element), whether or not it merges.
C34_Step ==
  /\ pc \in {"gen_entry", "gen_scan", "gen_done"} =>
       /\ analysisResult' = analysisResult
       /\ options' = options
  /\ pc \in {"opt_entry", "opt_loop"} =>
       /\ Len(cuts') = Len(cuts)
       /\ \A k \in 1..Len(cuts) :
            /\ cuts'[k].startTime = cuts[k].startTime
            /\ cuts'[k].endTime = cuts[k].endTime
            /\ cuts'[k].camera = cuts[k].camera

C34_NoInputMutation == [][C34_Step]_vars

\* applyFrequencyThreshold returned after merging: the output is shorter than
\* the input it was given
C34_Witness ==
  /\ pc = "opt_done"
  /\ Len(cuts) >= 3
  /\ Len(result) < Len(cuts)

\* generateCuts returned over a timeline with a camera change
C34_WitnessGenerated ==
  /\ pc = "gen_done"
  /\ Len(result) >= 2
  /\ DOMAIN analysisResult.timeline # {}

\* ------------------------------------------------------------ properties, SpecOpt
\* the scan of the design, on the list that remains to be read
RECURSIVE MergeScan(_, _)
MergeScan(cs, m) ==
  IF cs = <<>> THEN <<>>
  ELSE IF /\ Len(cs) >= 3
          /\ Duration(cs[2]) < m
          /\ cs[1].camera = cs[3].camera
       THEN <<Cut(cs[1].startTime, cs[3].endTime, cs[1].camera)>>
            \o MergeScan(SubSeq(cs, 4, Len(cs)), m)
       ELSE <<cs[1]>> \o MergeScan(Tail(cs), m)

\* C6: applyFrequencyThreshold equals the left-to-right scan: at i, if
\* cuts[i+2] exists, cuts[i+1] is shorter than minCutDuration and cuts[i] and
\* cuts[i+2] have the same camera, one cut (cuts[i].startTime,
\* cuts[i+2].endTime, cuts[i].camera) is emitted and i advances by 3, otherwise
\* cuts[i] is emitted and i advances by 1; a short middle cut between
\* different cameras is not merged.
C6_MergeScan ==
  pc = "opt_done" =>
    /\ result = MergeScan(cuts, optMinCut)
    /\ (Len(cuts) = 3 /\ cuts[1].camera # cuts[3].camera) => result = cuts

\* a list of five cuts has been merged at its head and copied after it, and
\* the case of a short middle cut between different cameras
C6_Witness ==
  /\ pc = "opt_done"
  /\ Len(cuts) = 5
  /\ Len(result) = 3
  /\ result[1] = Cut(cuts[1].startTime, cuts[3].endTime, cuts[1].camera)
  /\ result[2] = cuts[4]
  /\ Duration(cuts[5]) < optMinCut

Gapless(cs) == \A k \in 1..(Len(cs) - 1) : cs[k].endTime = cs[k + 1].startTime
Ordered(cs) == \A k \in 1..(Len(cs) - 1) : cs[k].startTime <= cs[k + 1].startTime

\* C7: for an ordered gapless input list the output of
\* applyFrequencyThreshold is ordered and gapless, has the same first
\* startTime and the same last endTime, and has at most as many cuts.
C7_MergeKeepsCoverage ==
  (pc = "opt_done" /\ Gapless(cuts) /\ Ordered(cuts)) =>
    /\ Gapless(result) /\ Ordered(result)
    /\ Len(result) <= Len(cuts)
    /\ Len(cuts) > 0 =>
         /\ Len(result) > 0
         /\ result[1].startTime = cuts[1].startTime
         /\ result[Len(result)].endTime = cuts[Len(cuts)].endTime

\* a gapless list of four cuts of positive length of which three were merged
C7_Witness ==
  /\ pc = "opt_done"
  /\ Len(cuts) = 4 /\ Gapless(cuts) /\ Ordered(cuts)
  /\ \A k \in 1..4 : Duration(cuts[k]) > 0
  /\ Len(result) = 2

\* the input is gapless [A, b, A, b, A]: one camera at the odd places,
\* another at the even places, both even cuts shorter than minCutDuration
AlternatingFive ==
  /\ Len(cuts) = 5
  /\ Gapless(cuts) /\ Ordered(cuts)
  /\ \A k \in {3, 5} : cuts[k].camera = cuts[1].camera
  /\ \A k \in {2, 4} : cuts[k].camera # cuts[1].camera /\ Duration(cuts[k]) < optMinCut

\* one iteration: either cuts[i] is copied and i advances by 1, or the cut
\* merged over cuts[i..i+2] is appended and i advances by 3; what was
\* appended before is left as it is
C21_Step ==
  (pc = "opt_loop" /\ pc' = "opt_loop") =>
    /\ Len(optimized') = Len(optimized) + 1
    /\ SubSeq(optimized', 1, Len(optimized)) = optimized
    /\ \/ /\ optI' = optI + 1
          /\ optimized'[Len(optimized')] = cuts[optI + 1]
       \/ /\ optI' = optI + 3
          /\ optI + 3 <= Len(cuts)
          /\ optimized'[Len(optimized')] =
               Cut(cuts[optI + 1].startTime, cuts[optI + 3].endTime,
                   cuts[optI + 1].camera)

C21_Final ==
  (pc = "opt_done" /\ AlternatingFive) =>
    /\ result = <<Cut(cuts[1].startTime, cuts[3].endTime, cuts[1].camera),
                  cuts[4], cuts[5]>>
    /\ applyFrequencyThreshold(result, optMinCut) =
         <<Cut(cuts[1].startTime, cuts[5].endTime, cuts[1].camera)>>
    /\ applyFrequencyThreshold(result, optMinCut) # result

\* C21: the merge pass is a single left-to-right pass, not a fixpoint.  After
\* a merge at index i the scan resumes at i+3 and the merged cut is never read
\* again in the same call; for a gapless input [A, b, A, b, A] with both b
\* shorter than minCutDuration one call returns the three cuts
\* [A merged over the first three, b, A], and a second call on that output
\* merges again, so the operation is not idempotent.
C21_SinglePass == [][C21_Step]_vars /\ [] C21_Final

\* the five alternating cuts of positive length were returned as three
C21_Witness ==
  /\ pc = "opt_done"
  /\ AlternatingFive
  /\ \A k \in 1..5 : Duration(cuts[k]) > 0
  /\ Len(result) = 3
  /\ result[1].endTime = cuts[3].endTime

\* ----------------------------------------------------------- properties, SpecStat
RECURSIVE SumOfDurations(_)
SumOfDurations(cs) ==
  IF cs = <<>> THEN 0 ELSE Duration(cs[1]) + SumOfDurations(Tail(cs))

\* the cuts of camera c, in list order
RECURSIVE CutsOfCamera(_, _)
CutsOfCamera(cs, c) ==
  IF cs = <<>> THEN <<>>
  ELSE (IF cs[1].camera = c THEN <<cs[1]>> ELSE <<>>) \o CutsOfCamera(Tail(cs), c)

\* index of the first cut whose duration no cut undercuts / exceeds
FirstShortest(cs) ==
  CHOOSE k \in 1..Len(cs) :
    /\ \A j \in 1..Len(cs) : Duration(cs[k]) <= Duration(cs[j])
    /\ \A j \in 1..(k - 1) : Duration(cs[j]) > Duration(cs[k])

FirstLongest(cs) ==
  CHOOSE k \in 1..Len(cs) :
    /\ \A j \in 1..Len(cs) : Duration(cs[k]) >= Duration(cs[j])
    /\ \A j \in 1..(k - 1) : Duration(cs[j]) < Duration(cs[k])

\* C24: getStatistics equals the reference computation.  For a non-empty
\* list with cameras in {1,2,3}: totalCuts is the length, totalDuration the
\* sum of endTime - startTime, averageCutDuration is totalDuration /
\* totalCuts, cameraUsage[c] the summed duration of the cuts of camera c (the
\* three add up to totalDuration), shortestCut and longestCut are the first
\* cuts of minimal and maximal duration with their duration; for the empty
\* list every number is 0 and shortestCut and longestCut are null.
C24_Statistics ==
  pc = "stat_done" =>
    IF cuts = <<>>
    THEN /\ result.totalCuts = 0
         /\ result.totalDuration = 0
         /\ result.averageCutDuration.num = 0
         /\ \A c \in Cameras : result.cameraUsage[c] = 0
         /\ result.shortestCut = null
         /\ result.longestCut = null
    ELSE LET s == cuts[FirstShortest(cuts)]
             l == cuts[FirstLongest(cuts)]
         IN /\ result.totalCuts = Len(cuts)
            /\ result.totalDuration = SumOfDurations(cuts)
            /\ result.averageCutDuration.num * Len(cuts) =
                 SumOfDurations(cuts) * result.averageCutDuration.den
            /\ result.averageCutDuration.den # 0
            /\ \A c \in Cameras :
                 result.cameraUsage[c] = SumOfDurations(CutsOfCamera(cuts, c))
            /\ result.cameraUsage[1] + result.cameraUsage[2] + result.cameraUsage[3] =
                 result.totalDuration
            /\ result.shortestCut =
                 [startTime |-> s.startTime, endTime |-> s.endTime,
                  camera |-> s.camera, duration |-> Duration(s)]
            /\ result.longestCut =
                 [startTime |-> l.startTime, endTime |-> l.endTime,
                  camera |-> l.camera, duration |-> Duration(l)]

\* the list of the test: total 6, average 2, usage 2, 3, 1, shortest 1,
\* longest 3
C24_Witness ==
  /\ pc = "stat_done"
  /\ cuts = <<Cut(0, 2, 1), Cut(2, 5, 2), Cut(5, 6, 3)>>
  /\ result.totalDuration = 6
  /\ result.averageCutDuration = [num |-> 6, den |-> 3]
  /\ result.cameraUsage = <<2, 3, 1>>
  /\ result.shortestCut.duration = 1
  /\ result.longestCut.duration = 3

\* ------------------------------------------------- validateCuts on any value
CutFields == {"startTime", "endTime", "camera"}

\* cut records with any subset of the fields; times from -1, cameras 1..4
CutRecords ==
  UNION {{r \in [F -> (-1)..Max({MaxValTime, 4})] :
            /\ ("startTime" \in F => r.startTime <= MaxValTime)
            /\ ("endTime" \in F => r.endTime \in 0..MaxValTime)
            /\ ("camera" \in F => r.camera \in Cameras \cup {4})}
         : F \in SUBSET CutFields}

ValInit ==
  /\ pc = "val_entry"
  /\ \/ valInput = [isArray |-> FALSE, items |-> <<>>]
     \/ \E n \in 0..MaxValCuts :
          \E items \in [1..n -> CutRecords \cup {null}] :
            valInput = [isArray |-> TRUE, items |-> items]
  /\ valOutcome = null
  /\ valSecond = null
  /\ GenIdle /\ ListIdle /\ OptIdle /\ CamIdle /\ EditIdle /\ AnaIdle /\ UiIdle

\* the cuts that draw a message are dropped from the caller's list
ValCall_repair ==
  /\ pc = "val_entry"
  /\ valOutcome' = validateCutsCall(valInput)
  /\ valInput' =
       IF valOutcome'.threw \/ ~valInput.isArray THEN valInput
       ELSE [valInput EXCEPT !.items =
               SelectSeq(valInput.items, LAMBDA c : CutErrors(<<c>>, 0) = <<>>)]
  /\ pc' = "val_done"
  /\ UNCHANGED <<valSecond, genVars, listVars, optVars, camVars, editVars, anaVars, uiVars>>

\* CutGenerator.js lines 204-250
ValCall ==
  /\ pc = "val_entry"
  /\ valOutcome' = validateCutsCall(valInput)
  /\ pc' = "val_done"
  /\ UNCHANGED <<valInput, valSecond, genVars, listVars, optVars, camVars, editVars, anaVars, uiVars>>

\* CutGenerator.js lines 204-250, called once more with the same list: the
\* errors array is a fresh local of every call (line 205)
ValAgain ==
  /\ pc = "val_done"
  /\ valSecond' = validateCutsCall(valInput)
  /\ pc' = "val_again"
  /\ UNCHANGED <<valInput, valOutcome, genVars, listVars, optVars, camVars, editVars, anaVars, uiVars>>

ValNext == ValCall \/ ValAgain

SpecVal == ValInit /\ [][ValNext]_vars

\* ------------------------------------------------------------ properties, SpecVal
\* the argument is an array whose elements are all records
ArrayOfRecords ==
  /\ valInput.isArray
  /\ \A k \in 1..Len(valInput.items) : valInput.items[k] # null

\* the checks that the cut at 0-based index i of the list violates
Violations(items, i) ==
  LET cut == items[i + 1]
      has(f) == f \in DOMAIN cut
  IN (IF has("startTime") THEN {} ELSE {"missing startTime"})
     \cup (IF has("endTime") THEN {} ELSE {"missing endTime"})
     \cup (IF has("camera") THEN {} ELSE {"missing camera"})
     \cup (IF has("startTime") THEN
             IF cut.startTime < 0 THEN {"startTime cannot be negative"} ELSE {}
           ELSE {})
     \cup (IF has("startTime") /\ has("endTime") THEN
             IF cut.endTime < cut.startTime THEN {"endTime must be >= startTime"} ELSE {}
           ELSE {})
     \cup (IF has("camera") THEN
             IF cut.camera \in {1, 2, 3} THEN {} ELSE {"camera must be 1, 2, or 3"}
           ELSE {"camera must be 1, 2, or 3"})
     \cup (IF i > 0 /\ has("startTime") THEN
             IF "endTime" \in DOMAIN items[i] THEN
               IF cut.startTime < items[i].endTime
               THEN {"overlaps with previous cut"} ELSE {}
             ELSE {}
           ELSE {})

Occurrences(errors, m) == Cardinality({k \in 1..Len(errors) : errors[k] = m})

CheckTexts ==
  {"missing startTime", "missing endTime", "missing camera",
   "startTime cannot be negative", "endTime must be >= startTime",
   "camera must be 1, 2, or 3", "overlaps with previous cut"}

\* C15: validateCuts is not fail-fast.  For every array of cut records it
\* returns valid = (errors is empty), and errors holds, in ascending cut
\* index, exactly one message for every violated check of every cut and no
\* other message; violations of a later cut are reported although an earlier
\* cut already failed.
C15_AllViolationsReported ==
  (pc = "val_done" /\ ArrayOfRecords) =>
    LET items == valInput.items
        errors == valOutcome.value.errors
    IN /\ ~valOutcome.threw
       /\ valOutcome.value.valid = (errors = <<>>)
       /\ \A i \in 0..(Len(items) - 1) : \A text \in CheckTexts :
            Occurrences(errors, <<i, text>>) =
              IF text \in Violations(items, i) THEN 1 ELSE 0
       /\ \A k \in 1..Len(errors) :
            /\ errors[k][1] \in 0..(Len(items) - 1)
            /\ errors[k][2] \in CheckTexts
       /\ \A a, b \in 1..Len(errors) : a < b => errors[a][1] <= errors[b][1]

\* the first cut lacks its camera and the second still gets its two messages
C15_Witness ==
  /\ pc = "val_done"
  /\ valInput.isArray
  /\ valInput.items = <<[startTime |-> 0, endTime |-> 1],
                        [startTime |-> 0, endTime |-> 1, camera |-> 4]>>
  /\ valOutcome.value.errors =
       <<<<0, "missing camera">>, <<0, "camera must be 1, 2, or 3">>,
         <<1, "camera must be 1, 2, or 3">>, <<1, "overlaps with previous cut">>>>

\* some cut starts strictly after the end of the cut before it
HasGap(items) ==
  \E k \in 1..(Len(items) - 1) :
    /\ "endTime" \in DOMAIN items[k]
    /\ "startTime" \in DOMAIN items[k + 1]
    /\ items[k + 1].startTime > items[k].endTime

\* C16: validateCuts verifies the no-gap invariant: every list with a gap is
\* reported with valid = false and a non-empty errors list.
C16_GapReported ==
  (pc = "val_done" /\ ArrayOfRecords /\ HasGap(valInput.items)) =>
    /\ valOutcome.value.valid = FALSE
    /\ valOutcome.value.errors # <<>>

\* C17: validateCuts never throws: for every input value (a non-array, an
\* empty array, records with missing fields, an element that is null or
\* undefined) it returns a result with valid and errors.
C17_NeverThrows ==
  pc = "val_done" =>
    /\ ~valOutcome.threw
    /\ valOutcome.value # null
    /\ valOutcome.value.valid \in BOOLEAN

\* C36: validateCuts is pure.  A call leaves the cut list and every cut in it
\* unchanged, and validating the same list twice returns equal valid flags and
\* equal errors lists.
C36_Step == pc \in {"val_entry", "val_done"} => valInput' = valInput

C36_State ==
  pc = "val_again" =>
    /\ valSecond.threw = valOutcome.threw
    /\ ~valOutcome.threw =>
         /\ valSecond.value.valid = valOutcome.value.valid
         /\ valSecond.value.errors = valOutcome.value.errors

SilenceThreshold == 2

\* Math.max(...levels); -1 stands for -Infinity
RECURSIVE MathMax(_)
MathMax(ls) ==
  IF ls = <<>> THEN -1
  ELSE LET rest == MathMax(Tail(ls)) IN IF ls[1] >= rest THEN ls[1] ELSE rest

\* levels.indexOf(x): 0-based index of the first element equal to x, or -1
RECURSIVE IndexOfFrom(_, _, _)
IndexOfFrom(ls, x, k) ==
  IF k > Len(ls) THEN -1
  ELSE IF ls[k] = x THEN k - 1 ELSE IndexOfFrom(ls, x, k + 1)

IndexOf(ls, x) == IndexOfFrom(ls, x, 1)

determineActiveCamera_inclusive(ls) ==
  LET maxLevel == MathMax(ls) IN
  IF maxLevel <= SilenceThreshold THEN 1 ELSE IndexOf(ls, maxLevel) + 1

determineActiveCamera(ls) ==
  LET maxLevel == MathMax(ls) IN
  IF maxLevel < SilenceThreshold THEN 1 ELSE IndexOf(ls, maxLevel) + 1

CamInit ==
  /\ pc = "cam_entry"
  /\ levels \in [1..3 -> 0..MaxLevel]
  /\ activeCam = 0
  /\ GenIdle /\ ListIdle /\ OptIdle /\ EditIdle /\ ValIdle /\ AnaIdle /\ UiIdle

\* AudioAnalyzer.js lines 321-331
CamDetermine ==
  /\ pc = "cam_entry"
  /\ activeCam' = determineActiveCamera(levels)
  /\ pc' = "cam_done"
  /\ UNCHANGED <<levels, genVars, listVars, optVars, editVars, valVars, anaVars, uiVars>>

CamNext == CamDetermine

SpecCam == CamInit /\ [][CamNext]_vars

\* C5: for three levels determineActiveCamera returns 1 when the maximum is
\* strictly below the silence threshold, and otherwise the 1-based index of
\* the first camera whose level equals the maximum; a maximum equal to the
\* threshold is not silence; the result is in {1,2,3}.
C5_DominantCamera ==
  pc = "cam_done" =>
    /\ activeCam \in {1, 2, 3}
    /\ (\A k \in 1..3 : levels[k] < SilenceThreshold) => activeCam = 1
    /\ (\E k \in 1..3 : levels[k] >= SilenceThreshold) =>
         /\ \A k \in 1..3 : levels[k] <= levels[activeCam]
         /\ \A k \in 1..(activeCam - 1) : levels[k] < levels[activeCam]

\* the maximum is exactly the threshold and is held by cameras 2 and 3
C5_Witness ==
  /\ pc = "cam_done"
  /\ levels = <<0, SilenceThreshold, SilenceThreshold>>
  /\ activeCam = 2

\* ------------------------------------------- analyzeSequence, step by step
\* "options.sampleRate || 1.0": one second, in ticks
DefaultSampleRate == 1

\* the level 1.0, in steps of 0.05
FullLevel == 20

Ceil_floor(a, b) == IF b > 0 THEN a \div b ELSE -((-a) \div (-b))

\* Math.ceil(a / b) for b # 0
Ceil(a, b) == IF b > 0 THEN -((-a) \div b) ELSE -(a \div (-b))

\* Math.min(1.0, Math.max(0.0, v))
Clamp(v) == Min({FullLevel, Max({0, v})})

\* values the host can give for a level: below the range, the silence
\* threshold, above the range
HostLevels == {-1, SilenceThreshold, FullLevel + 1}

\* options.sampleRate || 1.0: an absent or zero sampleRate is falsy
SampleRateOf(opts) ==
  IF "sampleRate" \notin DOMAIN opts THEN DefaultSampleRate
  ELSE IF opts.sampleRate = 0 THEN DefaultSampleRate ELSE opts.sampleRate

\* the duration getSequenceDuration falls back to, in seconds
DefaultDuration == 60

\* videoFrameCount / videoFrameRate.num * videoFrameRate.den, when both
\* settings are truthy
SettingsDuration(settings) ==
  IF settings.kind = "settings" /\ settings.videoFrameCount # 0
  THEN (settings.videoFrameCount \div settings.num) * settings.den
  ELSE DefaultDuration

\* getSequenceDuration, one tick per second: sequence.end when it is
\* defined, else the settings of getSettings when the sequence has it, else
\* the default; a rejecting getSettings ends in the catch block, which
\* returns the default as well
getSequenceDuration(seq) ==
  IF "end" \in DOMAIN seq THEN seq.end
  ELSE IF "getSettings" \in DOMAIN seq
       THEN IF seq.getSettings.kind = "rejects" THEN DefaultDuration
            ELSE SettingsDuration(seq.getSettings)
       ELSE DefaultDuration

\* getAudioTracksForCameras: null when the tracks were retrieved, else the
\* error it rethrows; sequence.getAudioTracks is preferred to the property
\* sequence.audioTracks
AudioTracksError(seq) ==
  IF "getAudioTracks" \in DOMAIN seq
  THEN CASE seq.getAudioTracks = "rejects" -> [message |-> "host error"]
         [] seq.getAudioTracks = "null" -> [message |-> "No audio tracks found in sequence"]
         [] OTHER -> null
  ELSE IF seq.audioTracks THEN null
       ELSE [message |-> "No audio tracks found in sequence"]

\* the catch block of getAudioLevelAtTime
LookupFailed_rethrow == [status |-> "rejected", level |-> 0]

LookupFailed == [status |-> "settled", level |-> 0]

Pending == [status |-> "pending", level |-> 0]

AnaOptionValues ==
  {<<>>} \cup {[sampleRate |-> r] : r \in (-1)..MaxSampleRate}

AnaInit ==
  /\ pc = "ana_entry"
  /\ anaSequence \in [end : 0..MaxAnaDuration, audioTracks : BOOLEAN]
  /\ anaOptions \in AnaOptionValues
  /\ Ceil(getSequenceDuration(anaSequence), SampleRateOf(anaOptions)) <= MaxSamples
  /\ anaCallback \in BOOLEAN
  /\ anaSampleRate = 0
  /\ anaDuration = 0
  /\ anaTotalSamples = 0
  /\ anaTimeline = <<>>
  /\ anaI = 0
  /\ lookups = <<>>
  /\ lookupFailures = {}
  /\ anaProgress = <<>>
  /\ anaResult = null
  /\ anaThrown = null
  /\ GenIdle /\ ListIdle /\ OptIdle /\ CamIdle /\ EditIdle /\ ValIdle /\ UiIdle

\* sequences of the host: with or without sequence.end, with or without
\* getSettings (rejecting, lacking the frame settings, or giving a frame
\* count at one frame per second), tracks through getAudioTracks or through
\* the property
HostSettings ==
  {[kind |-> "rejects"], [kind |-> "incomplete"]}
    \cup {[kind |-> "settings", videoFrameCount |-> n, num |-> 1, den |-> 1] : n \in 0..1}

HostSequences ==
  LET tracks == {[audioTracks |-> b] : b \in BOOLEAN}
                  \cup {[getAudioTracks |-> a] : a \in {"tracks", "null", "rejects"}}
      durations == {[end |-> d] : d \in 0..1}
                     \cup {[getSettings |-> g] : g \in HostSettings}
                     \cup {<<>>}
  IN {d @@ t : d \in durations, t \in tracks}

\* sample intervals that cover the default duration in one or two samples
HostOptionValues ==
  {<<>>} \cup {[sampleRate |-> r] : r \in {DefaultDuration \div 2, DefaultDuration}}

HostInit ==
  /\ pc = "ana_entry"
  /\ anaSequence \in HostSequences
  /\ anaOptions \in HostOptionValues
  /\ Ceil(getSequenceDuration(anaSequence), SampleRateOf(anaOptions)) <= MaxSamples
  /\ anaCallback \in BOOLEAN
  /\ anaSampleRate = 0
  /\ anaDuration = 0
  /\ anaTotalSamples = 0
  /\ anaTimeline = <<>>
  /\ anaI = 0
  /\ lookups = <<>>
  /\ lookupFailures = {}
  /\ anaProgress = <<>>
  /\ anaResult = null
  /\ anaThrown = null
  /\ GenIdle /\ ListIdle /\ OptIdle /\ CamIdle /\ EditIdle /\ ValIdle /\ UiIdle

anaFrame == <<genVars, listVars, optVars, camVars, editVars, valVars, uiVars>>

\* the catch block of analyzeSequence: "throw error"
AnaReject(error) ==
  /\ anaThrown' = error
  /\ pc' = "ana_done"

\* lines 50-63: sampleRate, duration, audio tracks, totalSamples
AnaStart ==
  /\ pc = "ana_entry"
  /\ anaSampleRate' = SampleRateOf(anaOptions)
  /\ anaDuration' = getSequenceDuration(anaSequence)
  /\ IF AudioTracksError(anaSequence) # null
     THEN /\ AnaReject(AudioTracksError(anaSequence))
          /\ UNCHANGED anaTotalSamples
     ELSE /\ anaTotalSamples' = Ceil(anaDuration', anaSampleRate')
          /\ pc' = "ana_loop"
          /\ UNCHANGED anaThrown
  /\ UNCHANGED <<anaInputs, anaTimeline, anaI, lookups, lookupFailures, anaProgress,
                 anaResult, anaFrame>>

\* lines 65-73: the three lookups of one timestamp are started
AnaLaunch ==
  /\ pc = "ana_loop"
  /\ anaI < anaTotalSamples
  /\ lookups' = [c \in Cameras |-> Pending]
  /\ pc' = "ana_sampling"
  /\ UNCHANGED <<anaInputs, anaSampleRate, anaDuration, anaTotalSamples, anaTimeline,
                 anaI, lookupFailures, anaProgress, anaResult, anaThrown, anaFrame>>

\* getAudioLevelAtTime of one camera ends: with the clamped level of the
\* host, or through its catch block when the host or the track fails
AnaLookupSettled ==
  /\ pc = "ana_sampling"
  /\ \E c \in Cameras :
       /\ lookups[c].status = "pending"
       /\ \/ /\ \E raw \in HostLevels :
                  lookups' = [lookups EXCEPT ![c] =
                                [status |-> "settled", level |-> Clamp(raw)]]
             /\ UNCHANGED lookupFailures
          \/ /\ lookups' = [lookups EXCEPT ![c] = LookupFailed]
             /\ lookupFailures' = lookupFailures \cup {<<anaI * anaSampleRate, c>>}
  /\ UNCHANGED <<pc, anaInputs, anaSampleRate, anaDuration, anaTotalSamples,
                 anaTimeline, anaI, anaProgress, anaResult, anaThrown, anaFrame>>

\* the sample is recorded as soon as one lookup has settled
AnaRecord_eager ==
  /\ pc = "ana_sampling"
  /\ \E c \in Cameras : lookups[c].status # "pending"
  /\ IF \E c \in Cameras : lookups[c].status = "rejected"
     THEN /\ AnaReject([message |-> "host error"])
          /\ UNCHANGED <<anaTimeline, anaProgress, anaI>>
     ELSE LET levels3 == [c \in 1..3 |-> lookups[c].level]
              timestamp == anaI * anaSampleRate
          IN /\ anaTimeline' =
                  [t \in DOMAIN anaTimeline \cup {timestamp} |->
                     IF t = timestamp
                     THEN [camera1 |-> levels3[1], camera2 |-> levels3[2],
                           camera3 |-> levels3[3],
                           activeCamera |-> determineActiveCamera(levels3)]
                     ELSE anaTimeline[t]]
             /\ anaProgress' =
                  IF anaCallback
                  THEN Append(anaProgress, [done |-> anaI + 1, total |-> anaTotalSamples])
                  ELSE anaProgress
             /\ anaI' = anaI + 1
             /\ pc' = "ana_loop"
             /\ UNCHANGED anaThrown
  /\ UNCHANGED <<anaInputs, anaSampleRate, anaDuration, anaTotalSamples, lookups,
                 lookupFailures, anaResult, anaFrame>>

\* lines 69-92: Promise.all has settled; a rejected lookup rejects it
AnaRecord ==
  /\ pc = "ana_sampling"
  /\ \A c \in Cameras : lookups[c].status # "pending"
  /\ IF \E c \in Cameras : lookups[c].status = "rejected"
     THEN /\ AnaReject([message |-> "host error"])
          /\ UNCHANGED <<anaTimeline, anaProgress, anaI>>
     ELSE LET levels3 == [c \in 1..3 |-> lookups[c].level]
              timestamp == anaI * anaSampleRate
          IN /\ anaTimeline' =
                  [t \in DOMAIN anaTimeline \cup {timestamp} |->
                     IF t = timestamp
                     THEN [camera1 |-> levels3[1], camera2 |-> levels3[2],
                           camera3 |-> levels3[3],
                           activeCamera |-> determineActiveCamera(levels3)]
                     ELSE anaTimeline[t]]
             /\ anaProgress' =
                  IF anaCallback
                  THEN Append(anaProgress, [done |-> anaI + 1, total |-> anaTotalSamples])
                  ELSE anaProgress
             /\ anaI' = anaI + 1
             /\ pc' = "ana_loop"
             /\ UNCHANGED anaThrown
  /\ UNCHANGED <<anaInputs, anaSampleRate, anaDuration, anaTotalSamples, lookups,
                 lookupFailures, anaResult, anaFrame>>

\* lines 95-101
AnaReturn ==
  /\ pc = "ana_loop"
  /\ anaI >= anaTotalSamples
  /\ anaResult' = [timeline |-> anaTimeline, duration |-> anaDuration,
                   sampleRate |-> anaSampleRate]
  /\ pc' = "ana_done"
  /\ UNCHANGED <<anaInputs, anaSampleRate, anaDuration, anaTotalSamples, anaTimeline,
                 anaI, lookups, lookupFailures, anaProgress, anaThrown, anaFrame>>

AnaNext == AnaStart \/ AnaLaunch \/ AnaLookupSettled \/ AnaRecord \/ AnaReturn

SpecAna == AnaInit /\ [][AnaNext]_vars

\* analyzeSequence on the sequences of the host
SpecHost == HostInit /\ [][AnaNext]_vars

\* ------------------------------------------------------------ properties, SpecAna
\* the level of camera c in a timeline entry
LevelOf(entry, c) ==
  CASE c = 1 -> entry.camera1 [] c = 2 -> entry.camera2 [] c = 3 -> entry.camera3

\* the lookups of the timestamp being sampled are still in flight
SamplingAt(t) == pc = "ana_sampling" /\ t = anaI * anaSampleRate

\* timestamps of the samples of a pass over duration d with interval r > 0
SampleTimes(d, r) == {t \in 0..d : t < d /\ t % r = 0}

BadSampleRate == "sampleRate" \in DOMAIN anaOptions /\ anaOptions.sampleRate <= 0

\* C19: malformed configuration is rejected before the pipeline starts: a
\* sampleRate <= 0 passed to analyzeSequence produces an input-validation
\* error and no sample is taken.
C19_MalformedConfigRejected ==
  (pc # "ana_entry" /\ BadSampleRate) =>
    /\ pc = "ana_done"
    /\ anaThrown # null
    /\ anaResult = null
    /\ anaTimeline = <<>>
    /\ lookups = <<>>

\* C19, second half: a minCutDuration <= 0 passed to generateCuts produces an
\* input-validation error and no cut list.
C19_MinCutDurationRejected ==
  (options # null /\ options.minCutDuration <= 0) =>
    (pc = "gen_entry" /\ cuts = <<>> /\ result = <<>>)

\* C20: for duration D >= 0 and a passed sample interval S > 0 the returned
\* timeline has exactly ceil(D/S) entries with keys i*S for
\* i = 0..ceil(D/S)-1, every key is >= 0 and < D, the returned duration is D
\* and the returned sampleRate is S; for D = 0 the timeline is empty.
C20_SampleGrid ==
  (pc = "ana_done" /\ anaThrown = null /\ "sampleRate" \in DOMAIN anaOptions) =>
    LET D == anaSequence.end
        S == anaOptions.sampleRate
        n == CHOOSE k \in 0..D : k * S >= D /\ (k = 0 \/ (k - 1) * S < D)
        keys == DOMAIN anaResult.timeline
    IN S > 0 =>
         /\ Cardinality(keys) = n
         /\ keys = {i * S : i \in 0..(n - 1)}
         /\ \A t \in keys : t >= 0 /\ t < D
         /\ anaResult.duration = D
         /\ anaResult.sampleRate = S
         /\ (D = 0 => anaResult.timeline = <<>>)

\* three ticks sampled every two ticks: entries at 0 and 2
C20_Witness ==
  /\ pc = "ana_done"
  /\ anaThrown = null
  /\ anaSequence.end = 3
  /\ anaOptions = [sampleRate |-> 2]
  /\ DOMAIN anaResult.timeline = {0, 2}
  /\ anaResult.duration = 3

\* timestamps recorded after the first n samples of a pass
Recorded(n) == {j * anaSampleRate : j \in 0..(n - 1)}

\* a level lookup is in flight
InFlight == \E c \in DOMAIN lookups : lookups[c].status = "pending"

\* C29: samples are taken one timestamp at a time in ascending order.  The
\* lookups in flight all belong to the timestamp anaI * sampleRate: they are
\* started only when no lookup is in flight and the samples of all earlier
\* timestamps, and no others, have been recorded and reported; the sample of
\* a timestamp is recorded only when its three lookups have settled; and
\* progress is reported exactly once per timestamp, report i + 1 being
\* (i + 1) of total, the last one of a complete pass being total of total.
C29_State ==
  /\ InFlight => pc = "ana_sampling"
  /\ pc \in {"ana_loop", "ana_sampling"} => DOMAIN anaTimeline = Recorded(anaI)
  /\ (pc = "ana_sampling" /\ anaI > 0) =>
       \A t \in DOMAIN anaTimeline : t <= anaI * anaSampleRate
  /\ Len(anaProgress) = IF anaCallback THEN anaI ELSE 0
  /\ \A j \in 1..Len(anaProgress) :
       anaProgress[j] = [done |-> j, total |-> anaTotalSamples]
  /\ (pc = "ana_done" /\ anaResult # null /\ anaCallback /\ anaTotalSamples >= 1) =>
       /\ Len(anaProgress) = anaTotalSamples
       /\ anaProgress[Len(anaProgress)].done * 100 = 100 * anaTotalSamples

C29_Step ==
  /\ (pc = "ana_loop" /\ pc' = "ana_sampling") =>
       /\ ~InFlight
       /\ DOMAIN anaTimeline = Recorded(anaI)
       /\ anaCallback => Len(anaProgress) = anaI
       /\ \A c \in Cameras : lookups'[c].status = "pending"
       /\ anaI' = anaI
  /\ (pc = "ana_sampling" /\ pc' = "ana_loop") =>
       /\ ~InFlight
       /\ anaI' = anaI + 1
       /\ DOMAIN anaTimeline' = DOMAIN anaTimeline \cup {anaI * anaSampleRate}
       /\ anaCallback => anaProgress' = Append(anaProgress,
                                               [done |-> anaI + 1,
                                                total |-> anaTotalSamples])
  /\ (pc = "ana_sampling" /\ pc' = "ana_sampling") =>
       (anaI' = anaI /\ anaTimeline' = anaTimeline /\ anaProgress' = anaProgress)

DurationLookupFailed ==
  /\ "end" \notin DOMAIN anaSequence
  /\ "getSettings" \in DOMAIN anaSequence
  /\ anaSequence.getSettings.kind = "rejects"

\* the host failed while the audio tracks were being retrieved
TrackLookupFailed ==
  /\ "getAudioTracks" \in DOMAIN anaSequence
  /\ anaSequence.getAudioTracks = "rejects"

\* C31: errors of the external capabilities used during analysis are not
\* suppressed.  When the host fails while the duration is determined
\* (getSettings rejecting) or while the audio tracks are retrieved,
\* analyzeSequence rejects with that error and never goes on with a
\* substituted duration or track set.
C31_HostErrorsPropagate ==
  ((DurationLookupFailed \/ TrackLookupFailed) /\ pc # "ana_entry") =>
    /\ pc = "ana_done"
    /\ anaThrown = [message |-> "host error"]
    /\ anaResult = null
    /\ anaTimeline = <<>>
    /\ anaTotalSamples = 0

\* getSettings rejected and the analysis resolved over the default duration
C31_SubstitutedDuration ==
  /\ DurationLookupFailed
  /\ pc = "ana_done"
  /\ anaThrown = null
  /\ anaResult.duration = DefaultDuration
  /\ anaResult.timeline # <<>>

\* what holds of the track retrieval alone: its failure rejects the call
C31_TrackErrorsPropagate ==
  (TrackLookupFailed /\ pc # "ana_entry") =>
    /\ pc = "ana_done"
    /\ anaThrown = [message |-> "host error"]
    /\ anaResult = null
    /\ anaTimeline = <<>>

\* ----------------------------------------------------------- TimelineEditor
\* state of the track a camera is bound to: the camera is absent from the
\* cameras object, its track is missing, its track has no clip, or its track
\* has a first clip
TrackStates == {"unbound", "notrack", "noclip", "clip"}

SequenceNames == {"Test Sequence", "My Video"}

\* `${sequence.name}_Multicam`
MulticamName_copy(name) == <<name, "_Copy">>

MulticamName(name) == <<name, "_Multicam">>

\* the first clip of the track of camera c (trackIndex = c - 1)
ClipOf(c) == <<"clip of track", c - 1>>

\* property keys of the objects cameras and cameraClips are strings
Key(c) == CASE c = 1 -> "1" [] c = 2 -> "2" [] c = 3 -> "3"
CameraOfKey(k) == CHOOSE c \in Cameras : Key(c) = k

\* the index handed to sequence.getVideoTrack in applyCut
DestinationTrack == 0

\* cameras without a track or a clip are left out instead of throwing
getCameraClips_lazy(seq, cams) ==
  IF ~seq.videoTracks
  THEN [threw |-> TRUE, message |-> <<"No video tracks found in sequence">>]
  ELSE [threw |-> FALSE,
        clips |-> [k \in {Key(x) : x \in {y \in Cameras : cams[y] = "clip"}}
                     |-> ClipOf(CameraOfKey(k))]]

\* getCameraClips: the cameras object is read in ascending key order and the
\* first camera without a track or a clip throws
getCameraClips(seq, cams) ==
  IF ~seq.videoTracks
  THEN [threw |-> TRUE, message |-> <<"No video tracks found in sequence">>]
  ELSE LET bad == {c \in Cameras : cams[c] \in {"notrack", "noclip"}} IN
       IF bad # {}
       THEN [threw |-> TRUE,
             message |-> IF cams[Min(bad)] = "notrack"
                         THEN <<"Track not found for Camera", Min(bad)>>
                         ELSE <<"No clips found in track for Camera", Min(bad)>>]
       ELSE [threw |-> FALSE,
             clips |-> [k \in {Key(x) : x \in {y \in Cameras : cams[y] = "clip"}}
                          |-> ClipOf(CameraOfKey(k))]]

\* what the host can answer to getVideoTrack(0): a track with insertClip, a
\* track without it, nothing, or a rejection; the mock sequence of testing
\* mode always answers with a track whose insertClip resolves
TrackAnswers(app) == IF app THEN {"track", "plain", "none", "reject"} ELSE {"track"}
InsertAnswers(app) == IF app THEN {"resolve", "reject"} ELSE {"resolve"}

\* the catch block of applyCut
ApplyCutError(cut, inner) == <<"Failed to apply cut for camera", cut.camera>> \o inner

applyEditsCatch_rethrow(message) == [returned |-> null, thrown |-> TRUE]

\* the catch block of applyEdits
applyEditsCatch(message) ==
  [returned |-> [success |-> FALSE, newSequenceName |-> null, cutsApplied |-> 0,
                 errors |-> <<message>>],
   thrown |-> FALSE]

\* cut lists: tiles of two ticks as in the applyEdits() tests
EditCutLists ==
  UNION {{[k \in 1..n |-> Cut(2 * (k - 1), 2 * k, cam[k])] : cam \in [1..n -> Cameras]}
         : n \in 0..MaxEditCuts}

EditInit ==
  /\ pc = "edit_entry"
  /\ sequence \in [name : SequenceNames, videoTracks : BOOLEAN]
  /\ editCuts \in EditCutLists
  /\ cameras \in [Cameras -> TrackStates]
  /\ progressCallback \in BOOLEAN
  /\ appDefined \in BOOLEAN
  /\ createCalls = 0
  /\ newSequence = null
  /\ cameraClips = null
  /\ editK = 0
  /\ cutsApplied = 0
  /\ inserts = <<>>
  /\ progress = <<>>
  /\ editResult = null
  /\ editThrown = FALSE
  /\ GenIdle /\ ListIdle /\ OptIdle /\ CamIdle /\ ValIdle /\ AnaIdle /\ UiIdle

\* leave applyEdits through its catch block
EditFail(message) ==
  /\ editResult' = applyEditsCatch(message).returned
  /\ editThrown' = applyEditsCatch(message).thrown
  /\ pc' = "edit_done"

\* progress reported before the cut is counted
EditCounted_reportFirst ==
  /\ cutsApplied' = cutsApplied + 1
  /\ progress' = IF progressCallback
                 THEN Append(progress, [applied |-> cutsApplied,
                                        total |-> Len(editCuts)])
                 ELSE progress
  /\ editK' = editK + 1

\* one more cut applied: count it and report progress
EditCounted ==
  /\ cutsApplied' = cutsApplied + 1
  /\ progress' = IF progressCallback
                 THEN Append(progress, [applied |-> cutsApplied + 1,
                                        total |-> Len(editCuts)])
                 ELSE progress
  /\ editK' = editK + 1

\* the sequence is not created before the clips are looked up
EditCreate_lazy ==
  /\ pc = "edit_entry"
  /\ pc' = "edit_clips"
  /\ UNCHANGED <<editVars, genVars, listVars, optVars, camVars, valVars, anaVars, uiVars>>

\* lines 58-63 and createNewSequence
EditCreate ==
  /\ pc = "edit_entry"
  /\ createCalls' = createCalls + 1
  /\ \/ /\ newSequence' = [name |-> MulticamName(sequence.name)]
        /\ pc' = "edit_clips"
        /\ UNCHANGED <<editResult, editThrown>>
     \/ /\ appDefined
        /\ EditFail(<<"Failed to create new sequence", "host error">>)
        /\ UNCHANGED newSequence
  /\ UNCHANGED <<editInputs, cameraClips, editK, cutsApplied, inserts, progress>>
  /\ UNCHANGED <<genVars, listVars, optVars, camVars, valVars, anaVars, uiVars>>

\* lines 65-70 and getCameraClips
EditGetClips ==
  /\ pc = "edit_clips"
  /\ LET got == getCameraClips(sequence, cameras) IN
     IF got.threw
     THEN EditFail(got.message) /\ UNCHANGED cameraClips
     ELSE /\ cameraClips' = got.clips
          /\ pc' = "edit_loop"
          /\ UNCHANGED <<editResult, editThrown>>
  /\ UNCHANGED <<editInputs, createCalls, newSequence, editK, cutsApplied, inserts,
                 progress>>
  /\ UNCHANGED <<genVars, listVars, optVars, camVars, valVars, anaVars, uiVars>>

\* lines 73-76 and applyCut (lines 260-290) up to the call of insertClip
EditRequest ==
  /\ pc = "edit_loop"
  /\ editK < Len(editCuts)
  /\ LET cut == editCuts[editK + 1] IN
     IF Key(cut.camera) \notin DOMAIN cameraClips
     THEN /\ EditFail(ApplyCutError(cut, <<"No clip found for camera", cut.camera>>))
          /\ UNCHANGED <<editK, cutsApplied, inserts, progress>>
     ELSE \E answer \in TrackAnswers(appDefined) :
            CASE answer = "reject" ->
                   /\ EditFail(ApplyCutError(cut, <<"host error">>))
                   /\ UNCHANGED <<editK, cutsApplied, inserts, progress>>
              [] answer = "none" ->
                   /\ EditFail(ApplyCutError(cut, <<"Destination video track not found">>))
                   /\ UNCHANGED <<editK, cutsApplied, inserts, progress>>
              [] answer = "plain" ->
                   /\ EditCounted
                   /\ UNCHANGED <<pc, inserts, editResult, editThrown>>
              [] answer = "track" ->
                   /\ inserts' = Append(inserts,
                                        [track |-> DestinationTrack,
                                         clip |-> cameraClips[Key(cut.camera)],
                                         inPoint |-> cut.startTime,
                                         outPoint |-> cut.endTime,
                                         timelinePosition |-> cut.startTime,
                                         status |-> "pending"])
                   /\ pc' = "edit_inserting"
                   /\ UNCHANGED <<editK, cutsApplied, progress, editResult, editThrown>>
  /\ UNCHANGED <<editInputs, createCalls, newSequence, cameraClips>>
  /\ UNCHANGED <<genVars, listVars, optVars, camVars, valVars, anaVars, uiVars>>

\* the awaited insertClip settles; lines 77-86 when it resolved
EditInsertSettled ==
  /\ pc = "edit_inserting"
  /\ \E answer \in InsertAnswers(appDefined) :
       IF answer = "resolve"
       THEN /\ inserts' = [inserts EXCEPT ![Len(inserts)].status = "resolved"]
            /\ EditCounted
            /\ pc' = "edit_loop"
            /\ UNCHANGED <<editResult, editThrown>>
       ELSE /\ inserts' = [inserts EXCEPT ![Len(inserts)].status = "rejected"]
            /\ EditFail(ApplyCutError(editCuts[editK + 1], <<"host error">>))
            /\ UNCHANGED <<editK, cutsApplied, progress>>
  /\ UNCHANGED <<editInputs, createCalls, newSequence, cameraClips>>
  /\ UNCHANGED <<genVars, listVars, optVars, camVars, valVars, anaVars, uiVars>>

\* lines 89-95
EditReturn ==
  /\ pc = "edit_loop"
  /\ editK = Len(editCuts)
  /\ editResult' = [success |-> TRUE, newSequenceName |-> MulticamName(sequence.name),
                    cutsApplied |-> cutsApplied]
  /\ pc' = "edit_done"
  /\ UNCHANGED <<editInputs, createCalls, newSequence, cameraClips, editK, cutsApplied,
                 inserts, progress, editThrown>>
  /\ UNCHANGED <<genVars, listVars, optVars, camVars, valVars, anaVars, uiVars>>

EditNext ==
  EditCreate \/ EditGetClips \/ EditRequest \/ EditInsertSettled \/ EditReturn

SpecEdit == EditInit /\ [][EditNext]_vars

\* ----------------------------------------------------------- properties, SpecEdit
\* applyEdits has ended while cut number editK (0-based) was being placed
PlacementFailed ==
  /\ pc = "edit_done"
  /\ cameraClips # null
  /\ editK < Len(editCuts)

EditSucceeded ==
  /\ pc = "edit_done"
  /\ cameraClips # null
  /\ editK = Len(editCuts)

\* C11: when placing cut k fails after cuts 0..k-1 were placed, the returned
\* result has cutsApplied = k, the number of cuts applied before the failure.
C11_CutsAppliedBeforeFailure ==
  PlacementFailed => editResult.cutsApplied = editK

C12_WitnessEmpty ==
  /\ EditSucceeded
  /\ editCuts = <<>>
  /\ editResult.success
  /\ editResult.cutsApplied = 0

\* C13: on success the returned result carries an errors field that is the
\* empty list.
C13_SuccessHasEmptyErrors ==
  (pc = "edit_done" /\ editResult # null /\ editResult.success) =>
    /\ "errors" \in DOMAIN editResult
    /\ editResult.errors = <<>>

\* C14: in every applyEdits call the destination sequence is created exactly
\* once, and the creation has completed before any insertion is requested;
\* also for the empty cut list and for a call that fails later.
C14_CreatedOnceBeforeInsert ==
  /\ createCalls <= 1
  /\ pc # "edit_entry" => createCalls = 1
  /\ (Len(inserts) > 0 \/ cutsApplied > 0 \/ cameraClips # null) =>
       (createCalls = 1 /\ newSequence # null)
  /\ (pc = "edit_done" /\ ~editThrown /\ newSequence = null) =>
       editResult.success = FALSE

\* the first insertion is requested, after the one creation
C14_Witness ==
  /\ pc = "edit_inserting"
  /\ Len(inserts) = 1
  /\ inserts[1].status = "pending"
  /\ createCalls = 1
  /\ newSequence = [name |-> <<sequence.name, "_Multicam">>]

\* the insertClip request that applyCut makes for a cut, before it settles
RequestFor(cut) ==
  [track |-> 0, clip |-> ClipOf(cut.camera), inPoint |-> cut.startTime,
   outPoint |-> cut.endTime, timelinePosition |-> cut.startTime]

WithoutStatus(ins) == [f \in DOMAIN ins \ {"status"} |-> ins[f]]

\* C25: cuts are placed strictly one at a time in list order.  The insertion
\* for cut k+1 is requested only after the insertion for cut k has resolved,
\* each cut the loop has gone past was requested exactly once, and request
\* number j carries the clip bound to the camera of cut j, inPoint = its
\* startTime, outPoint = its endTime and timelinePosition = its startTime on
\* destination track 0.
C25_OneAtATimeInOrder ==
  /\ \A j \in 1..(Len(inserts) - 1) : inserts[j].status = "resolved"
  /\ Len(inserts) <= Len(editCuts)
  /\ \A j \in 1..Len(inserts) : WithoutStatus(inserts[j]) = RequestFor(editCuts[j])
  /\ pc = "edit_loop" => Len(inserts) = editK
  /\ pc = "edit_inserting" =>
       (Len(inserts) = editK + 1 /\ inserts[editK + 1].status = "pending")
  /\ EditSucceeded => Len(inserts) = Len(editCuts)

\* the same order, stated for the requests that were made: they are requests
\* for cuts in strictly ascending list position, none repeated, each with the
\* arguments of its cut, and all but the last have resolved
C25_RequestsAscending ==
  /\ \A j \in 1..(Len(inserts) - 1) :
       /\ inserts[j].status = "resolved"
       /\ inserts[j].timelinePosition < inserts[j + 1].timelinePosition
  /\ \A j \in 1..Len(inserts) :
       \E k \in j..Len(editCuts) :
         /\ k <= editK + 1
         /\ WithoutStatus(inserts[j]) = RequestFor(editCuts[k])

\* the insertClip requests that the destination track resolved
ResolvedInserts == {j \in 1..Len(inserts) : inserts[j].status = "resolved"}

\* C39: cutsApplied counts only real insertions.  In every result of
\* applyEdits with success = true, cutsApplied equals the number of
\* insertClip requests that the destination track resolved; a cut is never
\* counted when no insertion was requested for it, for example when the
\* destination track exposes no insertClip.
C39_CountsOnlyInsertions ==
  /\ EditSucceeded => editResult.cutsApplied = Cardinality(ResolvedInserts)
  /\ cutsApplied <= Len(inserts)

\* a successful result that counts a cut for which nothing was requested
C39_CountedWithoutInsertion ==
  /\ EditSucceeded
  /\ editResult.cutsApplied = Len(editCuts)
  /\ Len(editCuts) >= 1
  /\ Len(inserts) < Len(editCuts)

C26_WitnessFailed ==
  /\ PlacementFailed
  /\ progressCallback
  /\ Len(editCuts) = 3
  /\ editK = 1
  /\ progress = <<[applied |-> 1, total |-> 3]>>

\* cameras whose binding has no usable clip: no track or no clip in it
Unusable == {c \in Cameras : cameras[c] \in {"notrack", "noclip"}}

\* the message getCameraClips throws for camera c
BindingMessage(c) ==
  IF cameras[c] = "notrack" THEN <<"Track not found for Camera", c>>
  ELSE <<"No clips found in track for Camera", c>>

\* applyEdits failed in getCameraClips because of a binding
FailedOnBinding ==
  /\ pc = "edit_done"
  /\ newSequence # null
  /\ cameraClips = null
  /\ sequence.videoTracks

\* applyEdits failed at a cut whose camera has no entry in cameraClips
FailedOnMissingClip ==
  /\ PlacementFailed
  /\ editResult.errors =
       <<ApplyCutError(editCuts[editK + 1],
                       <<"No clip found for camera", editCuts[editK + 1].camera>>)>>

C27_WitnessUnbound ==
  /\ FailedOnMissingClip
  /\ cameras[2] = "unbound"
  /\ editK = 1
  /\ Len(inserts) = 1
  /\ inserts[1].status = "resolved"

\* ------------------------------------------------- panel workflow (analyze)
\* updateStatus(message, type)
Status(type, message) == [type |-> type, message |-> message]

\* allCamerasAssigned()
allCamerasAssigned == \A c \in Cameras : stateCameras[c]

\* the value analyzeSequence resolved with in run r, and the cut list that
\* generateCuts made of an analysis result
ResultOf(r) == [run |-> r]
CutsOf(analysis, n) == [from |-> analysis, count |-> n]

\* an invocation of analyze() that has passed the camera check and awaits
\* getActiveSequence
NewRun(clicked) ==
  [at |-> "sequence", clicked |-> clicked, outcome |-> "running", error |-> <<>>,
   overlapped |-> \E q \in 1..Len(analyzeRuns) : analyzeRuns[q].at # "returned",
   analysis |-> "idle", generatedFrom |-> null, editing |-> null,
   createRequests |-> 0, created |-> FALSE, insertRequests |-> 0, placed |-> 0]

\* an invocation of analyze() that returned at the camera check
RefusedRun(clicked) ==
  [NewRun(clicked) EXCEPT !.at = "returned", !.outcome = "unassigned"]

UiInit ==
  /\ pc = "ui"
  /\ stateCameras = [c \in Cameras |-> FALSE]
  /\ isAnalyzing = FALSE
  /\ currentStep = "setup"
  /\ stateAnalysisResult = null
  /\ stateCuts = null
  /\ analyzeBtnDisabled = TRUE
  /\ statusDiv = Status("info", <<"Ready. Assign camera tracks to begin.">>)
  /\ progressDiv = <<>>
  /\ analyzeRuns = <<>>
  /\ setupCalls = [c \in Cameras |-> [sequence |-> 0, tracks |-> 0]]
  /\ setupStarted = 0
  /\ GenIdle /\ ListIdle /\ OptIdle /\ CamIdle /\ EditIdle /\ ValIdle /\ AnaIdle

uiFrame == <<pc, genVars, listVars, optVars, camVars, editVars, valVars, anaVars>>

\* a camera button is clicked: setupCamera(num) runs up to its first await
SetupClicked(num) ==
  /\ pc = "ui"
  /\ setupStarted < MaxSetupCalls
  /\ setupStarted' = setupStarted + 1
  /\ setupCalls' = [setupCalls EXCEPT ![num].sequence = @ + 1]
  /\ UNCHANGED <<stateCameras, isAnalyzing, currentStep, stateAnalysisResult, stateCuts,
                 analyzeBtnDisabled, statusDiv, progressDiv, analyzeRuns, uiFrame>>

\* setupCamera: getActiveSequence has settled
SetupSequenceSettled(num) ==
  /\ pc = "ui"
  /\ setupCalls[num].sequence > 0
  /\ \/ /\ setupCalls' = [setupCalls EXCEPT ![num].sequence = @ - 1]
        /\ statusDiv' = Status("error", <<"Error: No active sequence. Please open a sequence first.">>)
     \/ /\ setupCalls' = [setupCalls EXCEPT ![num].sequence = @ - 1,
                                            ![num].tracks = @ + 1]
        /\ UNCHANGED statusDiv
  /\ UNCHANGED <<stateCameras, isAnalyzing, currentStep, stateAnalysisResult, stateCuts,
                 analyzeBtnDisabled, progressDiv, analyzeRuns, setupStarted, uiFrame>>

\* setupCamera: getVideoTracksList has settled, with at least three tracks,
\* fewer, or an error
SetupTracksSettled(num) ==
  /\ pc = "ui"
  /\ setupCalls[num].tracks > 0
  /\ setupCalls' = [setupCalls EXCEPT ![num].tracks = @ - 1]
  /\ \/ /\ stateCameras' = [stateCameras EXCEPT ![num] = TRUE]
        /\ statusDiv' = Status("success", <<"Camera assigned", num>>)
        /\ analyzeBtnDisabled' = IF \A c \in Cameras : stateCameras'[c]
                                 THEN FALSE ELSE analyzeBtnDisabled
     \/ /\ statusDiv' = Status("error", <<"Error: Need at least 3 video tracks.">>)
        /\ UNCHANGED <<stateCameras, analyzeBtnDisabled>>
     \/ /\ statusDiv' = Status("error", <<"Error:", "Unable to read video tracks from sequence.">>)
        /\ UNCHANGED <<stateCameras, analyzeBtnDisabled>>
  /\ UNCHANGED <<isAnalyzing, currentStep, stateAnalysisResult, stateCuts, progressDiv,
                 analyzeRuns, setupStarted, uiFrame>>

\* analyze() starts without looking at the cameras
AnalyzeStart_unchecked(clicked) ==
  /\ isAnalyzing' = TRUE
  /\ analyzeBtnDisabled' = TRUE
  /\ analyzeRuns' = Append(analyzeRuns, NewRun(clicked))
  /\ UNCHANGED statusDiv

\* analyze() up to its first await: the camera check, then the flags
AnalyzeStart(clicked) ==
  IF ~allCamerasAssigned
  THEN /\ statusDiv' = Status("error", <<"Error: Assign all 3 cameras before analyzing.">>)
       /\ analyzeRuns' = Append(analyzeRuns, RefusedRun(clicked))
       /\ UNCHANGED <<isAnalyzing, analyzeBtnDisabled>>
  ELSE /\ isAnalyzing' = TRUE
       /\ analyzeBtnDisabled' = TRUE
       /\ analyzeRuns' = Append(analyzeRuns, NewRun(clicked))
       /\ UNCHANGED statusDiv

\* the analyze button is clicked; a disabled button dispatches no click
AnalyzeClicked ==
  /\ pc = "ui"
  /\ Len(analyzeRuns) < MaxAnalyzeCalls
  /\ ~analyzeBtnDisabled
  /\ AnalyzeStart(TRUE)
  /\ UNCHANGED <<stateCameras, currentStep, stateAnalysisResult, stateCuts, progressDiv,
                 setupCalls, setupStarted, uiFrame>>

\* analyze() is invoked as a function of the panel script, not through the
\* button
AnalyzeCalled ==
  /\ pc = "ui"
  /\ Len(analyzeRuns) < MaxAnalyzeCalls
  /\ AnalyzeStart(FALSE)
  /\ UNCHANGED <<stateCameras, currentStep, stateAnalysisResult, stateCuts, progressDiv,
                 setupCalls, setupStarted, uiFrame>>

\* the catch block of analyze() leaves the flags as they are
AnalyzeCatch_noReset(r, run, message) ==
  /\ statusDiv' = Status("error", <<"Error:", message>>)
  /\ progressDiv' = <<>>
  /\ analyzeRuns' = [analyzeRuns EXCEPT ![r] = [run EXCEPT !.at = "returned",
                                                           !.outcome = "failed",
                                                           !.error = message]]
  /\ UNCHANGED <<isAnalyzing, currentStep, analyzeBtnDisabled>>

\* the catch block of analyze(), entered by run r in the state run
AnalyzeCatch(r, run, message) ==
  /\ statusDiv' = Status("error", <<"Error:", message>>)
  /\ progressDiv' = <<>>
  /\ isAnalyzing' = FALSE
  /\ currentStep' = "setup"
  /\ analyzeBtnDisabled' = FALSE
  /\ analyzeRuns' = [analyzeRuns EXCEPT ![r] = [run EXCEPT !.at = "returned",
                                                           !.outcome = "failed",
                                                           !.error = message]]

\* analyze(): getActiveSequence has settled, with a sequence or with null;
\* with a sequence the run goes on to the call of analyzeSequence
AnalyzeSequenceSettled(r) ==
  /\ pc = "ui"
  /\ r \in 1..Len(analyzeRuns)
  /\ analyzeRuns[r].at = "sequence"
  /\ \/ /\ statusDiv' = Status("error", <<"Error: No active sequence found.">>)
        /\ isAnalyzing' = FALSE
        /\ analyzeBtnDisabled' = FALSE
        /\ analyzeRuns' = [analyzeRuns EXCEPT ![r].at = "returned",
                                              ![r].outcome = "no_sequence"]
        /\ UNCHANGED <<currentStep, progressDiv>>
     \/ /\ currentStep' = "processing"
        /\ progressDiv' = <<"Step 1/4: Analyzing audio levels...">>
        /\ analyzeRuns' = [analyzeRuns EXCEPT ![r].at = "analysis",
                                              ![r].analysis = "started"]
        /\ UNCHANGED <<statusDiv, isAnalyzing, analyzeBtnDisabled>>
  /\ UNCHANGED <<stateCameras, stateAnalysisResult, stateCuts, setupCalls, setupStarted,
                 uiFrame>>

\* the progress callback registered on the analyzer
AnalysisProgress(r) ==
  /\ pc = "ui"
  /\ r \in 1..Len(analyzeRuns)
  /\ analyzeRuns[r].at = "analysis"
  /\ progressDiv' = <<"Step 1/4:", "Analyzing audio">>
  /\ UNCHANGED <<stateCameras, isAnalyzing, currentStep, stateAnalysisResult, stateCuts,
                 analyzeBtnDisabled, statusDiv, analyzeRuns, setupCalls, setupStarted,
                 uiFrame>>

\* the run goes on after a rejected analysis as if it had resolved
AnalysisRejected_goOn(r) ==
  /\ stateCuts' = CutsOf(stateAnalysisResult, 0)
  /\ progressDiv' = <<"Step 3/4: Creating multicam sequence...">>
  /\ analyzeRuns' = [analyzeRuns EXCEPT ![r].at = "creating",
                                        ![r].analysis = "rejected",
                                        ![r].generatedFrom = stateAnalysisResult,
                                        ![r].editing = stateCuts',
                                        ![r].createRequests = @ + 1]
  /\ UNCHANGED <<stateAnalysisResult, statusDiv, isAnalyzing, currentStep,
                 analyzeBtnDisabled>>

\* analyzeSequence rejected: the await throws into the catch block
AnalysisRejected(r) ==
  /\ AnalyzeCatch(r, [analyzeRuns[r] EXCEPT !.analysis = "rejected"],
                  <<"analyzeSequence failed">>)
  /\ UNCHANGED <<stateAnalysisResult, stateCuts>>

\* analyzeSequence resolved: the result is stored, generateCuts makes n cuts
\* of state.analysisResult, and applyEdits is called with state.cuts and
\* runs up to the request to create the destination sequence
AnalysisResolved(r, n) ==
  /\ stateAnalysisResult' = ResultOf(r)
  /\ stateCuts' = CutsOf(stateAnalysisResult', n)
  /\ progressDiv' = <<"Step 3/4: Creating multicam sequence...">>
  /\ analyzeRuns' = [analyzeRuns EXCEPT ![r].at = "creating",
                                        ![r].analysis = "resolved",
                                        ![r].generatedFrom = stateAnalysisResult',
                                        ![r].editing = stateCuts',
                                        ![r].createRequests = @ + 1]
  /\ UNCHANGED <<statusDiv, isAnalyzing, currentStep, analyzeBtnDisabled>>

\* analyze(): the awaited analyzeSequence has settled
AnalysisSettled(r) ==
  /\ pc = "ui"
  /\ r \in 1..Len(analyzeRuns)
  /\ analyzeRuns[r].at = "analysis"
  /\ \/ \E n \in 0..MaxUiCuts : AnalysisResolved(r, n)
     \/ AnalysisRejected(r)
  /\ UNCHANGED <<stateCameras, setupCalls, setupStarted, uiFrame>>

\* applyEdits: the creation of the destination sequence has settled and
\* getCameraClips has run; on either failing, applyEdits returns
\* success = false with one message and analyze() throws it
UiCreateSettled(r) ==
  /\ pc = "ui"
  /\ r \in 1..Len(analyzeRuns)
  /\ analyzeRuns[r].at = "creating"
  /\ \/ /\ analyzeRuns' = [analyzeRuns EXCEPT ![r].at = "placing", ![r].created = TRUE]
        /\ UNCHANGED <<statusDiv, progressDiv, isAnalyzing, currentStep,
                       analyzeBtnDisabled>>
     \/ AnalyzeCatch(r, analyzeRuns[r], <<"Failed to create new sequence">>)
     \/ AnalyzeCatch(r, [analyzeRuns[r] EXCEPT !.created = TRUE],
                     <<"No clips found in track">>)
  /\ UNCHANGED <<stateCameras, stateAnalysisResult, stateCuts, setupCalls, setupStarted,
                 uiFrame>>

\* applyEdits: the insertion of the next cut has settled; a resolved one is
\* reported through the progress callback registered on the editor, a
\* rejected one ends applyEdits with success = false
UiInsertSettled(r) ==
  /\ pc = "ui"
  /\ r \in 1..Len(analyzeRuns)
  /\ analyzeRuns[r].at = "placing"
  /\ analyzeRuns[r].placed < analyzeRuns[r].editing.count
  /\ \/ /\ analyzeRuns' = [analyzeRuns EXCEPT ![r].insertRequests = @ + 1,
                                              ![r].placed = @ + 1]
        /\ progressDiv' = <<"Step 3/4:", "Applying cuts">>
        /\ UNCHANGED <<statusDiv, isAnalyzing, currentStep, analyzeBtnDisabled>>
     \/ AnalyzeCatch(r, [analyzeRuns[r] EXCEPT !.insertRequests = @ + 1],
                     <<"Failed to apply cut">>)
  /\ UNCHANGED <<stateCameras, stateAnalysisResult, stateCuts, setupCalls, setupStarted,
                 uiFrame>>

\* applyEdits has returned success = true: visualization, then completion;
\* the rendering may throw in the host
UiEditsReturned(r) ==
  /\ pc = "ui"
  /\ r \in 1..Len(analyzeRuns)
  /\ analyzeRuns[r].at = "placing"
  /\ analyzeRuns[r].placed = analyzeRuns[r].editing.count
  /\ \/ /\ progressDiv' = <<>>
        /\ currentStep' = "refinement"
        /\ isAnalyzing' = FALSE
        /\ statusDiv' = Status("success", <<"Complete! Created with cuts", analyzeRuns[r].placed>>)
        /\ analyzeRuns' = [analyzeRuns EXCEPT ![r].at = "returned",
                                              ![r].outcome = "complete"]
        /\ UNCHANGED analyzeBtnDisabled
     \/ AnalyzeCatch(r, analyzeRuns[r], <<"render failed">>)
  /\ UNCHANGED <<stateCameras, stateAnalysisResult, stateCuts, setupCalls, setupStarted,
                 uiFrame>>

UiNext ==
  \/ \E num \in Cameras : SetupClicked(num)
  \/ \E num \in Cameras : SetupSequenceSettled(num)
  \/ \E num \in Cameras : SetupTracksSettled(num)
  \/ AnalyzeClicked
  \/ AnalyzeCalled
  \/ \E r \in 1..MaxAnalyzeCalls : AnalyzeSequenceSettled(r)
  \/ \E r \in 1..MaxAnalyzeCalls : AnalysisProgress(r)
  \/ \E r \in 1..MaxAnalyzeCalls : AnalysisSettled(r)
  \/ \E r \in 1..MaxAnalyzeCalls : UiCreateSettled(r)
  \/ \E r \in 1..MaxAnalyzeCalls : UiInsertSettled(r)
  \/ \E r \in 1..MaxAnalyzeCalls : UiEditsReturned(r)

SpecUI == UiInit /\ [][UiNext]_vars

\* ------------------------------------------------------------ properties, SpecUI
RunIds == 1..Len(analyzeRuns)

\* run r of analyze() has not returned yet
RunInFlight(r) == analyzeRuns[r].at # "returned"

\* C22: the analyze button is disabled during the whole of processing.  In
\* every reachable state with state.isAnalyzing = true the button is
\* disabled, whatever camera-button clicks are interleaved with the running
\* analyze(); hence no run is started from the button while another run is
\* in flight.
C22_ButtonDisabledWhileAnalyzing ==
  /\ isAnalyzing => analyzeBtnDisabled
  /\ \A r \in RunIds : analyzeRuns[r].clicked => ~analyzeRuns[r].overlapped

\* a run that did nothing beyond the camera check
NothingStarted(run) ==
  /\ run.at = "returned"
  /\ run.analysis = "idle"
  /\ run.generatedFrom = null
  /\ run.editing = null
  /\ run.createRequests = 0
  /\ run.insertRequests = 0

\* C23: the pipeline does not start with missing camera bindings.  When
\* analyze() is invoked while a camera is unassigned, an error status is
\* shown, the run does no analysis, cut generation, sequence creation or
\* insertion, and state.isAnalyzing, state.currentStep,
\* state.analysisResult and state.cuts stay as they are; and the analyze
\* button is enabled only when all three cameras are assigned.
C23_Step ==
  (Len(analyzeRuns') = Len(analyzeRuns) + 1 /\ ~allCamerasAssigned) =>
    /\ statusDiv'.type = "error"
    /\ analyzeRuns'[Len(analyzeRuns')].outcome = "unassigned"
    /\ NothingStarted(analyzeRuns'[Len(analyzeRuns')])
    /\ UNCHANGED <<isAnalyzing, currentStep, stateAnalysisResult, stateCuts,
                   analyzeBtnDisabled, progressDiv>>

C23_State ==
  /\ ~analyzeBtnDisabled => allCamerasAssigned
  /\ \A r \in RunIds :
       /\ analyzeRuns[r].outcome = "unassigned" => NothingStarted(analyzeRuns[r])
       /\ analyzeRuns[r].outcome # "unassigned" => allCamerasAssigned

C23_NoStartWithoutCameras == [][C23_Step]_vars /\ []C23_State

\* analyze() was invoked with camera 3 unassigned and returned at the check
C23_Witness ==
  /\ stateCameras = (1 :> TRUE) @@ (2 :> TRUE) @@ (3 :> FALSE)
  /\ Len(analyzeRuns) = 1
  /\ analyzeRuns[1].outcome = "unassigned"
  /\ statusDiv = Status("error", <<"Error: Assign all 3 cameras before analyzing.">>)
  /\ ~isAnalyzing
  /\ analyzeBtnDisabled

\* C28: the stages of one analyze() run are strictly sequential.
\* generateCuts is given the result that analyzeSequence resolved with in
\* this run, applyEdits (and with it the creation of the destination
\* sequence) is given the cut list that generateCuts returned for it, no
\* insertion is requested before the sequence was created, and when the
\* analysis rejects the run generates no cuts, creates no sequence and
\* inserts nothing.
C28_StagesSequential ==
  \A r \in RunIds :
    LET run == analyzeRuns[r] IN
      /\ run.generatedFrom # null =>
           (run.analysis = "resolved" /\ run.generatedFrom = ResultOf(r))
      /\ run.editing # null =>
           (run.generatedFrom # null /\ run.editing.from = ResultOf(r))
      /\ run.createRequests > 0 => run.editing # null
      /\ run.createRequests <= 1
      /\ run.created => run.createRequests = 1
      /\ run.insertRequests > 0 => (run.created /\ run.insertRequests <= run.editing.count)
      /\ run.analysis # "resolved" =>
           /\ run.generatedFrom = null
           /\ run.editing = null
           /\ run.createRequests = 0
           /\ run.insertRequests = 0
      /\ run.analysis = "rejected" => (run.at = "returned" /\ run.outcome = "failed")
      /\ run.at \in {"creating", "placing"} => run.analysis = "resolved"

\* a run went through all stages and placed a cut
C28_Witness ==
  \E r \in RunIds :
    /\ analyzeRuns[r].outcome = "complete"
    /\ analyzeRuns[r].analysis = "resolved"
    /\ analyzeRuns[r].insertRequests = 1
    /\ analyzeRuns[r].editing = CutsOf(ResultOf(r), 1)

\* a run whose analysis rejected
C28_WitnessRejected ==
  \E r \in RunIds :
    /\ analyzeRuns[r].analysis = "rejected"
    /\ analyzeRuns[r].outcome = "failed"
    /\ analyzeRuns[r].createRequests = 0

\* run r ends in this step, in the way named by outcome
RunEnds(r, outcome) ==
  /\ r \in RunIds
  /\ analyzeRuns[r].outcome = "running"
  /\ analyzeRuns'[r].outcome = outcome

\* C30: error reset in the workflow.  Whenever a run of analyze() fails (no
\* active sequence, a stage throwing, or applyEdits returning success =
\* false) it ends with state.isAnalyzing = false and the analyze button
\* enabled; after a thrown or reported stage failure also the progress
\* display is cleared, currentStep is 'setup' and the status is an error
\* carrying the message of the failure.
C30_Step ==
  \A r \in 1..MaxAnalyzeCalls :
    /\ (RunEnds(r, "no_sequence") \/ RunEnds(r, "failed")) =>
         /\ isAnalyzing' = FALSE
         /\ analyzeBtnDisabled' = FALSE
         /\ statusDiv'.type = "error"
         /\ analyzeRuns'[r].at = "returned"
    /\ RunEnds(r, "failed") =>
         /\ progressDiv' = <<>>
         /\ currentStep' = "setup"
         /\ statusDiv' = Status("error", <<"Error:", analyzeRuns'[r].error>>)
         /\ analyzeRuns'[r].error # <<>>

\* a run that has not returned is still running, and a returned run has an
\* outcome: no run ends in any other way
C30_State ==
  \A r \in RunIds :
    /\ RunInFlight(r) <=> analyzeRuns[r].outcome = "running"
    /\ analyzeRuns[r].outcome \in
         {"running", "unassigned", "no_sequence", "failed", "complete"}
    /\ analyzeRuns[r].analysis = "rejected" => analyzeRuns[r].outcome = "failed"

C30_ErrorReset == [][C30_Step]_vars /\ []C30_State

\* applyEdits reported a failed insertion and the panel was reset
C30_Witness ==
  /\ Len(analyzeRuns) = 1
  /\ analyzeRuns[1].outcome = "failed"
  /\ analyzeRuns[1].error = <<"Failed to apply cut">>
  /\ ~isAnalyzing
  /\ ~analyzeBtnDisabled
  /\ currentStep = "setup"
  /\ progressDiv = <<>>
  /\ statusDiv = Status("error", <<"Error:", <<"Failed to apply cut">>>>)

\* no active sequence: the flags are reset and the step is left as it was
C30_WitnessNoSequence ==
  /\ Len(analyzeRuns) = 1
  /\ analyzeRuns[1].outcome = "no_sequence"
  /\ ~isAnalyzing
  /\ ~analyzeBtnDisabled

\* setupCamera assigns a camera in this step
SetupSucceeds == \E num \in Cameras : ~stateCameras[num] /\ stateCameras'[num]

\* some run of analyze() ends in failure in this step
SomeRunFails ==
  \E r \in 1..MaxAnalyzeCalls : RunEnds(r, "no_sequence") \/ RunEnds(r, "failed")

\* C40: after a run of analyze() that completes successfully,
\* state.isAnalyzing is false, state.currentStep is 'refinement' and the
\* analyze button is still disabled; the button becomes enabled again only
\* when a later camera-button click runs setupCamera successfully, whereas
\* a failed run enables it immediately.
C40_Step ==
  /\ \A r \in 1..MaxAnalyzeCalls :
       RunEnds(r, "complete") =>
         /\ isAnalyzing' = FALSE
         /\ currentStep' = "refinement"
         /\ analyzeBtnDisabled' = TRUE
  /\ SomeRunFails => analyzeBtnDisabled' = FALSE
  /\ (analyzeBtnDisabled /\ ~analyzeBtnDisabled') =>
       (SomeRunFails \/ statusDiv'.type = "success")

C40_DisabledAfterSuccess == [][C40_Step]_vars

\* what the successful return itself does: it clears isAnalyzing, moves to
\* 'refinement' and leaves the button as it finds it; the button goes from
\* disabled to enabled only in a step of setupCamera that shows 'Camera
\* assigned' or in a step that ends a run in failure
C40_CompletionStep ==
  /\ \A r \in 1..MaxAnalyzeCalls :
       RunEnds(r, "complete") =>
         /\ isAnalyzing' = FALSE
         /\ currentStep' = "refinement"
         /\ analyzeBtnDisabled' = analyzeBtnDisabled
  /\ SomeRunFails => analyzeBtnDisabled' = FALSE
  /\ (analyzeBtnDisabled /\ ~analyzeBtnDisabled') =>
       \/ SomeRunFails
       \/ \E num \in Cameras : statusDiv' = Status("success", <<"Camera assigned", num>>)

C40_CompletionKeepsButton == [][C40_CompletionStep]_vars

\* a run completed without a camera click in between: the button is disabled
C40_CompletedDisabled ==
  /\ Len(analyzeRuns) = 1
  /\ analyzeRuns[1].outcome = "complete"
  /\ ~isAnalyzing
  /\ currentStep = "refinement"
  /\ analyzeBtnDisabled

\* a run completed after a camera click settled during the run: the button
\* is enabled
C40_CompletedEnabled ==
  /\ Len(analyzeRuns) = 1
  /\ analyzeRuns[1].outcome = "complete"
  /\ ~isAnalyzing
  /\ currentStep = "refinement"
  /\ ~analyzeBtnDisabled

====
